---------------------------- MODULE Spec2Model ----------------------------
(***************************************************************************)
(* A model of riscan-pro: the frame algebra (point.rs), the camera         *)
(* distortion model (camera_calibration.rs), the colorizer (colorizer.rs), *)
(* the matrix text parser (utils.rs, project.rs) and the project loader    *)
(* (project/mod.rs, project/image.rs, project/traits.rs).                  *)
(*                                                                         *)
(* Numbers.  An f64 is modelled as a fixed-point number: the integer n     *)
(* stands for n / Scale.  Every product and quotient is rounded to the     *)
(* nearest grid value, as f64 arithmetic rounds to the nearest             *)
(* representable value.  usize values are plain integers.                  *)
(***************************************************************************)
EXTENDS Integers, Sequences, FiniteSets, TLC

VARIABLES
    colorizer,  \* the Colorizer built by Colorizer::from_path, None before
    project,    \* the Project built by Project::from_path, None before
    call,       \* the call in progress: its name and arguments
    ret         \* what the call returned

vars == <<colorizer, project, call, ret>>

---------------------------------------------------------------------------
(* Fixed-point arithmetic standing for f64.                                *)

Scale == 1000

\* the f64 n/d
F(n, d) == (n * Scale) \div d

Abs(a) == IF a < 0 THEN -a ELSE a

Sgn(a) == IF a < 0 THEN -1 ELSE 1

\* n / d rounded to the nearest integer, d # 0
RoundDiv(n, d) == Sgn(n) * Sgn(d) * ((2 * Abs(n) + Abs(d)) \div (2 * Abs(d)))

\* a * b
FMul(a, b) == RoundDiv(a * b, Scale)

\* a / b, b # 0
FDiv(a, b) == RoundDiv(a * Scale, b)

\* f64::powi
RECURSIVE Powi(_, _)
Powi(a, n) == IF n = 0 THEN Scale ELSE FMul(a, Powi(a, n - 1))

RECURSIVE IntSqrtIn(_, _, _)
IntSqrtIn(n, lo, hi) ==
    IF lo >= hi THEN lo
    ELSE LET mid == (lo + hi + 1) \div 2
         IN  IF mid <= n \div mid THEN IntSqrtIn(n, mid, hi)
             ELSE IntSqrtIn(n, lo, mid - 1)

\* f64::sqrt of a >= 0
FSqrt(a) == IntSqrtIn(a * Scale, 0, a + Scale)

HalfPi == F(15708, 10000)

\* the arctangent series, for 0 <= t <= tan(pi/8)
AtanSeries(t) ==
    t - Powi(t, 3) \div 3 + Powi(t, 5) \div 5 - Powi(t, 7) \div 7 + Powi(t, 9) \div 9

\* atan for 0 <= t <= 1, by the half-angle reduction
AtanUnit(t) == 2 * AtanSeries(FDiv(t, Scale + FSqrt(Scale * 1 + FMul(t, t))))

\* f64::atan
Atan(t) ==
    IF t < 0 THEN -(IF -t > Scale THEN HalfPi - AtanUnit(FDiv(Scale, -t)) ELSE AtanUnit(-t))
    ELSE IF t > Scale THEN HalfPi - AtanUnit(FDiv(Scale, t))
    ELSE AtanUnit(t)

\* f64::trunc as usize, for a >= 0
Trunc(a) == a \div Scale

---------------------------------------------------------------------------
(* let and Iterator::map.                                                  *)

\* let x = v; In(x): v is evaluated once
Bind(v, In(_)) == CHOOSE r \in {In(x) : x \in {v}} : TRUE

\* s.iter().map(function) over the first n elements of s
RECURSIVE MapSeq(_, _, _)
MapSeq(function(_), s, n) ==
    IF n = 0 THEN << >> ELSE Append(MapSeq(function, s, n - 1), function(s[n]))

---------------------------------------------------------------------------
(* Option<T>                                                               *)

None == [some |-> FALSE]

Some(v) == [some |-> TRUE, val |-> v]

---------------------------------------------------------------------------
(* Result<T>                                                               *)

Ok(v) == [ok |-> TRUE, val |-> v]

Err(e) == [ok |-> FALSE, err |-> e]

---------------------------------------------------------------------------
(* nalgebra::Matrix4<f64> and Projective3<f64>: four rows of four entries. *)

Matrix4(a, b, c, d) == <<a, b, c, d>>

Identity == Matrix4(<<Scale, 0, 0, 0>>, <<0, Scale, 0, 0>>, <<0, 0, Scale, 0>>, <<0, 0, 0, Scale>>)

\* the three indices of 1..4 other than i, in order
Others(i) == CASE i = 1 -> <<2, 3, 4>> [] i = 2 -> <<1, 3, 4>>
               [] i = 3 -> <<1, 2, 4>> [] i = 4 -> <<1, 2, 3>>

\* the determinant of the 2x2 block of m in rows r1, r2 and columns c1, c2
Det2(m, r1, r2, c1, c2) == FMul(m[r1][c1], m[r2][c2]) - FMul(m[r1][c2], m[r2][c1])

\* the determinant of the 3x3 block of m in rows r and columns c
Det3(m, r, c) ==
      FMul(m[r[1]][c[1]], Det2(m, r[2], r[3], c[2], c[3]))
    - FMul(m[r[1]][c[2]], Det2(m, r[2], r[3], c[1], c[3]))
    + FMul(m[r[1]][c[3]], Det2(m, r[2], r[3], c[1], c[2]))

Cofactor(m, i, j) == (IF (i + j) % 2 = 0 THEN 1 ELSE -1) * Det3(m, Others(i), Others(j))

Determinant(m) ==
      FMul(m[1][1], Cofactor(m, 1, 1)) + FMul(m[1][2], Cofactor(m, 1, 2))
    + FMul(m[1][3], Cofactor(m, 1, 3)) + FMul(m[1][4], Cofactor(m, 1, 4))

\* Matrix4::try_inverse: None exactly when the determinant is zero
TryInverse(matrix) ==
    Bind(matrix, LAMBDA m : Bind(Determinant(m), LAMBDA det :
        IF det = 0 THEN None
        ELSE Some(<<
          <<FDiv(Cofactor(m, 1, 1), det), FDiv(Cofactor(m, 2, 1), det),
            FDiv(Cofactor(m, 3, 1), det), FDiv(Cofactor(m, 4, 1), det)>>,
          <<FDiv(Cofactor(m, 1, 2), det), FDiv(Cofactor(m, 2, 2), det),
            FDiv(Cofactor(m, 3, 2), det), FDiv(Cofactor(m, 4, 2), det)>>,
          <<FDiv(Cofactor(m, 1, 3), det), FDiv(Cofactor(m, 2, 3), det),
            FDiv(Cofactor(m, 3, 3), det), FDiv(Cofactor(m, 4, 3), det)>>,
          <<FDiv(Cofactor(m, 1, 4), det), FDiv(Cofactor(m, 2, 4), det),
            FDiv(Cofactor(m, 3, 4), det), FDiv(Cofactor(m, 4, 4), det)>> >>)))

\* Matrix4::transpose
Transpose(m) ==
    <<<<m[1][1], m[2][1], m[3][1], m[4][1]>>, <<m[1][2], m[2][2], m[3][2], m[4][2]>>,
      <<m[1][3], m[2][3], m[3][3], m[4][3]>>, <<m[1][4], m[2][4], m[3][4], m[4][4]>> >>

Dot4(r, c) == FMul(r[1], c[1]) + FMul(r[2], c[2]) + FMul(r[3], c[3]) + FMul(r[4], c[4])

\* Matrix4 * Vector4
MatVec(matrix, vector) ==
    Bind(matrix, LAMBDA m : Bind(vector, LAMBDA v :
        <<Dot4(m[1], v), Dot4(m[2], v), Dot4(m[3], v), Dot4(m[4], v)>>))

\* Matrix4 * Matrix4, Projective3 * Projective3
MatMul(left, right) ==
    Bind(left, LAMBDA a : Bind(Transpose(right), LAMBDA bt :
        <<MatVec(bt, a[1]), MatVec(bt, a[2]), MatVec(bt, a[3]), MatVec(bt, a[4])>>))

\* Projective3 * &Point3: the affine part applied, then the division by the
\* homogeneous coordinate when it is not zero
TransformPoint(m, p) ==
    Bind(MatVec(m, <<p[1], p[2], p[3], Scale>>), LAMBDA h :
        IF h[4] # 0 THEN <<FDiv(h[1], h[4]), FDiv(h[2], h[4]), FDiv(h[3], h[4])>>
        ELSE <<h[1], h[2], h[3]>>)

\* Projective3::inverse unwraps try_inverse: it panics on a matrix that has no inverse
InversePanics(m) == ~TryInverse(m).some

Inverse(m) == TryInverse(m).val

---------------------------------------------------------------------------
(* The outcome of a call: a value, or a panic (a failed assert!, unwrap).  *)

Panic == [panic |-> TRUE]

Value(v) == [panic |-> FALSE, val |-> v]

---------------------------------------------------------------------------
(* point.rs: Point<Cmcs>                                                   *)

Point(x, y, z) == <<x, y, z>>

\* the comparison turned around
is_behind_camera_inverted(point) == point[3] >= 0

is_behind_camera(point) == point[3] <= 0

tan_horz(point) == FDiv(point[2], point[3])

tan_vert(point) == FDiv(point[1], point[3])

---------------------------------------------------------------------------
(* camera_calibration.rs: CameraCalibration                                *)

\* the upper bounds taken as inclusive
is_valid_pixel_inclusive(self, u, v) ==
    u >= 0 /\ v >= 0 /\ u <= self.width * Scale /\ v <= self.height * Scale

\* the lower bounds forgotten
is_valid_pixel_unsigned(self, u, v) ==
    u < self.width * Scale /\ v < self.height * Scale

is_valid_pixel(self, u, v) ==
    u >= 0 /\ v >= 0 /\ u < self.width * Scale /\ v < self.height * Scale

\* the limits themselves rejected
OutsideAngleExtents_exclusive(self, point) ==
    \/ tan_horz(point) <= self.tan_min_horz
    \/ tan_horz(point) >= self.tan_max_horz
    \/ tan_vert(point) <= self.tan_min_vert
    \/ tan_vert(point) >= self.tan_max_vert

\* the field-of-view filter of cmcs_to_ics: TRUE when the point is rejected
OutsideAngleExtents(self, point) ==
    \/ tan_horz(point) < self.tan_min_horz
    \/ tan_horz(point) > self.tan_max_horz
    \/ tan_vert(point) < self.tan_min_vert
    \/ tan_vert(point) > self.tan_max_vert

\* the division by z left out
Distort_undivided(self, point) ==
    <<FMul(self.fx, point[1]) + FMul(self.cx, point[3]),
      FMul(self.fy, point[2]) + FMul(self.cy, point[3])>>

\* the distorted pixel of a point in front of the camera, before the pixel check
Distort(self, point) ==
    LET ud_prime == <<FMul(self.fx, point[1]) + FMul(self.cx, point[3]),
                      FMul(self.fy, point[2]) + FMul(self.cy, point[3]),
                      point[3]>>
        u == FDiv(ud_prime[1], ud_prime[3])
        v == FDiv(ud_prime[2], ud_prime[3])
        x == FDiv(u - self.cx, self.fx)
        y == FDiv(v - self.cy, self.fy)
        r == FSqrt(Powi(Atan(FSqrt(Powi(x, 2) + Powi(y, 2))), 2))
        r_term == FMul(self.k1, Powi(r, 2)) + FMul(self.k2, Powi(r, 4))
                  + FMul(self.k3, Powi(r, 6)) + FMul(self.k4, Powi(r, 8))
        ud == u + FMul(FMul(x, self.fx), r_term)
                + FMul(FMul(FMul(2 * self.fx, x), y), self.p1)
                + FMul(FMul(self.p2, self.fx), Powi(r, 2) + 2 * Powi(x, 2))
        vd == v + FMul(FMul(y, self.fy), r_term)
                + FMul(FMul(FMul(2 * self.fy, x), y), self.p2)
                + FMul(FMul(self.p1, self.fy), Powi(r, 2) + 2 * Powi(y, 2))
    IN  <<ud, vd>>

cmcs_to_ics(self, point) ==
    IF is_behind_camera(point) THEN None
    ELSE IF OutsideAngleExtents(self, point) THEN None
    ELSE LET uv == Distort(self, point)
         IN  IF is_valid_pixel(self, uv[1], uv[2]) THEN Some(uv) ELSE None

---------------------------------------------------------------------------
(* colorizer.rs: Colorizer                                                 *)

\* the value at column v, row u
temperature_transposed(irb, u, v) ==
    IF u < irb.width /\ v < irb.height THEN Some(irb.data[u + 1][v + 1]) ELSE None

\* irb::text::Irb::temperature: the value at column u, row v, None out of bounds
temperature(irb, u, v) ==
    IF u < irb.width /\ v < irb.height THEN Some(irb.data[v + 1][u + 1]) ELSE None

socs_to_cmcs(self, point) ==
    TransformPoint(MatMul(self.mount_calibration.matrix, Inverse(self.image.cop)), point)

pixel(self, point) == cmcs_to_ics(self.camera_calibration, socs_to_cmcs(self, point))

colorize(self, point) ==
    LET px == pixel(self, point)
    IN  IF ~px.some THEN Value(None)
        ELSE IF ~(px.val[1] >= 0) THEN Panic
        ELSE IF ~(px.val[2] >= 0) THEN Panic
        ELSE Value(temperature(self.irb, Trunc(px.val[1]), Trunc(px.val[2])))

---------------------------------------------------------------------------
(* Matrix text.  A text is a sequence of characters; the parsers split it  *)
(* on whitespace, parse every token as f64 and build the matrix.           *)

Whitespace == {" ", "\n"}

DigitChars == <<"0", "1", "2", "3", "4", "5", "6", "7", "8", "9">>

Digits == {DigitChars[i] : i \in 1..Len(DigitChars)}

DigitVal(c) == (CHOOSE i \in 1..Len(DigitChars) : DigitChars[i] = c) - 1

\* str::split_whitespace: the maximal runs of non-whitespace characters
RECURSIVE SplitFrom(_, _, _, _)
SplitFrom(s, i, cur, tokens) ==
    IF i > Len(s) THEN (IF cur = <<>> THEN tokens ELSE Append(tokens, cur))
    ELSE IF s[i] \in Whitespace
         THEN SplitFrom(s, i + 1, <<>>, IF cur = <<>> THEN tokens ELSE Append(tokens, cur))
         ELSE SplitFrom(s, i + 1, Append(cur, s[i]), tokens)

split_whitespace(s) == SplitFrom(s, 1, <<>>, <<>>)

\* the decimal literals str::parse::<f64> accepts over this alphabet:
\* an optional sign, digits, an optional point, digits, one digit at least
Unsigned(tok) == IF tok # <<>> /\ tok[1] \in {"-", "+"} THEN Tail(tok) ELSE tok

PointAt(t) == {i \in 1..Len(t) : t[i] = "."}

IntegerPart(t) == IF PointAt(t) = {} THEN t ELSE SubSeq(t, 1, (CHOOSE i \in PointAt(t) : TRUE) - 1)

FractionPart(t) ==
    IF PointAt(t) = {} THEN <<>> ELSE SubSeq(t, (CHOOSE i \in PointAt(t) : TRUE) + 1, Len(t))

AllDigits(t) == \A i \in 1..Len(t) : t[i] \in Digits

IsF64Literal(tok) ==
    LET t == Unsigned(tok)
    IN  /\ Cardinality(PointAt(t)) <= 1
        /\ AllDigits(IntegerPart(t))
        /\ AllDigits(FractionPart(t))
        /\ Len(IntegerPart(t)) + Len(FractionPart(t)) >= 1

\* the number the first n digits of t write
RECURSIVE DigitsValue(_, _)
DigitsValue(t, n) == IF n = 0 THEN 0 ELSE 10 * DigitsValue(t, n - 1) + DigitVal(t[n])

RECURSIVE Pow10(_)
Pow10(n) == IF n = 0 THEN 1 ELSE 10 * Pow10(n - 1)

F64Value(tok) ==
    LET t == Unsigned(tok)
        magnitude == DigitsValue(IntegerPart(t), Len(IntegerPart(t))) * Scale
                     + RoundDiv(DigitsValue(FractionPart(t), Len(FractionPart(t))) * Scale,
                                Pow10(Len(FractionPart(t))))
    IN  IF tok[1] = "-" THEN -magnitude ELSE magnitude

\* s.parse::<f64>().map_err(Error::from)
ParseF64(tok) == IF IsF64Literal(tok) THEN Ok(F64Value(tok)) ELSE Err([type |-> "ParseFloat"])

\* .collect::<Result<Vec<_>>>(): the values, or the first error
Collect(results) ==
    IF \E i \in 1..Len(results) : ~results[i].ok
    THEN results[CHOOSE i \in 1..Len(results) :
                    ~results[i].ok /\ \A j \in 1..(i - 1) : results[j].ok]
    ELSE Ok(MapSeq(LAMBDA r : r.val, results, Len(results)))

\* the tokens of s, each parsed as f64
ParseEntries(s) ==
    Bind(split_whitespace(s), LAMBDA tokens :
        Bind(MapSeq(ParseF64, tokens, Len(tokens)), Collect))

\* the matrix filled row by row
FromIterator_rows(v) ==
    Matrix4(<<v[1], v[2], v[3], v[4]>>, <<v[5], v[6], v[7], v[8]>>,
            <<v[9], v[10], v[11], v[12]>>, <<v[13], v[14], v[15], v[16]>>)

\* Matrix4::from_iterator fills the matrix column by column
FromIterator(v) ==
    Matrix4(<<v[1], v[5], v[9], v[13]>>, <<v[2], v[6], v[10], v[14]>>,
            <<v[3], v[7], v[11], v[15]>>, <<v[4], v[8], v[12], v[16]>>)

\* Matrix4::new takes the entries row by row
MatrixNew(v) ==
    Matrix4(<<v[1], v[2], v[3], v[4]>>, <<v[5], v[6], v[7], v[8]>>,
            <<v[9], v[10], v[11], v[12]>>, <<v[13], v[14], v[15], v[16]>>)

\* nalgebra::try_convert::<Matrix4, Projective3>: only an invertible matrix
TryConvert(matrix) == IF TryInverse(matrix).some THEN Some(matrix) ELSE None

projective_from_str_lenient(s) ==
    LET entries == ParseEntries(s)
    IN  IF ~entries.ok THEN entries
        ELSE IF Len(entries.val) < 16 THEN Err([type |-> "ParseMatrix4", text |-> s])
        ELSE LET matrix == Transpose(FromIterator(entries.val))
             IN  IF TryConvert(matrix).some THEN Ok(matrix)
                 ELSE Err([type |-> "Inverse", matrix |-> matrix])

projective_from_str_count_first(s) ==
    IF Len(split_whitespace(s)) # 16 THEN Err([type |-> "ParseMatrix4", text |-> s])
    ELSE LET entries == ParseEntries(s)
         IN  IF ~entries.ok THEN entries
             ELSE LET matrix == Transpose(FromIterator(entries.val))
                  IN  IF TryConvert(matrix).some THEN Ok(matrix)
                      ELSE Err([type |-> "Inverse", matrix |-> matrix])

projective_from_str_unchecked(s) ==
    LET entries == ParseEntries(s)
    IN  IF ~entries.ok THEN entries
        ELSE IF Len(entries.val) # 16 THEN Err([type |-> "ParseMatrix4", text |-> s])
        ELSE Ok(Transpose(FromIterator(entries.val)))

\* utils.rs
projective_from_str(s) ==
    LET entries == ParseEntries(s)
    IN  IF ~entries.ok THEN entries
        ELSE IF Len(entries.val) # 16 THEN Err([type |-> "ParseMatrix4", text |-> s])
        ELSE LET matrix == Transpose(FromIterator(entries.val))
             IN  IF TryConvert(matrix).some THEN Ok(matrix)
                 ELSE Err([type |-> "Inverse", matrix |-> matrix])

\* project.rs
matrix_from_str(s) ==
    LET entries == ParseEntries(s)
    IN  IF ~entries.ok THEN entries
        ELSE IF Len(entries.val) # 16 THEN Err([type |-> "Matrix", entries |-> entries.val])
        ELSE Ok(MatrixNew(entries.val))

---------------------------------------------------------------------------
(* project/: the project file read into a Project.  The document is a     *)
(* record of its elements:                                                 *)
(*   children       the names of the children of the root, in their order  *)
(*   mountcalibs    a sequence of [name, matrix]                           *)
(*   camcalibs      a sequence of [element, name, version, internal_opencv]*)
(*   scanpositions  a sequence of [name, sop, singlescans, scanposimages]  *)
(* and an element of scanposimages is [name, mountcalib_ref, camcalib_ref, *)
(* cop, csv].  Matrices and the version are texts; a reference is the      *)
(* noderef attribute split at its slashes; csv is the image file next to   *)
(* the project, None when there is none.                                   *)

\* utils::matrix4_from_str: 16 whitespace-separated floats, row by row
\* in the text; malformed text is an error carrying the text
matrix4_from_str(s) ==
    Bind(ParseEntries(s), LAMBDA entries :
        IF ~entries.ok \/ Len(entries.val) # 16
        THEN Err([type |-> "ParseMatrix", text |-> s])
        ELSE Ok(Transpose(FromIterator(entries.val))))

\* GetDescendant::get_matrix4
get_matrix4(text) == matrix4_from_str(text)

\* GetDescendant::get_noderef: the last segment of the noderef attribute
get_noderef(segments) == Ok(segments[Len(segments)])

\* str::parse::<u8>: an optional plus sign and digits, at most 255
ParseU8(tok) ==
    LET t == IF tok # <<>> /\ tok[1] = "+" THEN Tail(tok) ELSE tok
    IN  IF t # <<>> /\ AllDigits(t) /\ Len(t) <= 3 /\ DigitsValue(t, Len(t)) <= 255
        THEN Ok(DigitsValue(t, Len(t)))
        ELSE Err([type |-> "ParseInt"])

\* collect::<HashMap<_, _>> of the first n pairs: of two entries with one
\* key the later stays
RECURSIVE MapFromPairs(_, _)
MapFromPairs(pairs, n) ==
    IF n = 0 THEN << >>
    ELSE (pairs[n][1] :> pairs[n][2]) @@ MapFromPairs(pairs, n - 1)

\* the children that fail are left out of the map
map_children_skipping(results) ==
    Bind(SelectSeq(results, LAMBDA r : r.ok), LAMBDA kept :
        Ok(MapFromPairs(MapSeq(LAMBDA r : r.val, kept, Len(kept)), Len(kept))))

\* GetDescendant::map_children, given the function's result for every
\* child in document order: the map of all, or the first error
map_children(results) ==
    Bind(Collect(results), LAMBDA collected :
        IF collected.ok THEN Ok(MapFromPairs(collected.val, Len(collected.val)))
        ELSE collected)

\* GetDescendant::map_children: the function applied to every child
MapChildren(function(_), children) ==
    Bind(MapSeq(function, children, Len(children)), map_children)

\* MountCalibration::from_element
MountCalibrationFromElement(element) ==
    Bind(get_matrix4(element.matrix), LAMBDA matrix :
        IF ~matrix.ok THEN matrix
        ELSE Ok(<<element.name, [name |-> element.name, matrix |-> matrix.val]>>))

\* CameraCalibration::from_element
CameraCalibrationFromElement(element) ==
    IF element.element = "camcalib_opencv"
    THEN LET version == ParseU8(element.version)
         IN  IF ~version.ok THEN version
             ELSE Ok(<<element.name,
                       [name |-> element.name, version |-> version.val,
                        internal_opencv |-> element.internal_opencv]>>)
    ELSE Err([type |-> "UnsupportedCameraCalibration", name |-> element.element])

\* infratec::Image::from_path on the csv file
InfratecFromPath(csv) ==
    IF csv.readable THEN Ok([width |-> csv.width, height |-> csv.height, data |-> csv.data])
    ELSE Err([type |-> "ReadInfratec"])

\* image::read_image_data
read_image_data(csv) ==
    IF csv.some
    THEN LET image == InfratecFromPath(csv.val)
         IN  IF image.ok THEN Ok(Some(image.val)) ELSE image
    ELSE Ok(None)

\* Image::from_element
ImageFromElement(element, mount_calibration, camera_calibration, scan_position_name, sop) ==
    LET image_data == read_image_data(element.csv)
    IN  IF ~image_data.ok THEN image_data
        ELSE Bind(get_matrix4(element.cop), LAMBDA cop :
            IF ~cop.ok THEN cop
            ELSE Ok([cop |-> cop.val,
                     camera_calibration |-> camera_calibration,
                     image_data |-> image_data.val,
                     mount_calibration |-> mount_calibration,
                     name |-> element.name,
                     scan_position_name |-> scan_position_name,
                     sop |-> sop]))

\* a reference that names no calibration gets some calibration of the map
Resolve_lenient(calibrations, kind, name) ==
    IF name \in DOMAIN calibrations THEN Ok(calibrations[name])
    ELSE IF DOMAIN calibrations # {}
         THEN Ok(calibrations[CHOOSE n \in DOMAIN calibrations : TRUE])
         ELSE Err([type |-> "MissingElement", element |-> kind, name |-> name])

\* ScanPosition::from_element, the lookup of a referenced calibration:
\* the calibration of that name, or the error naming it
Resolve(calibrations, kind, name) ==
    IF name \in DOMAIN calibrations THEN Ok(calibrations[name])
    ELSE Err([type |-> "MissingElement", element |-> kind, name |-> name])

\* ScanPosition::from_element, the function mapped over scanposimages
ScanPosImage(child, mount_calibrations, camera_calibrations, name, sop) ==
    LET mount_ref == get_noderef(child.mountcalib_ref)
        mount_calibration ==
            IF mount_ref.ok THEN Resolve(mount_calibrations, "mount_calibration", mount_ref.val)
            ELSE mount_ref
        camera_ref == get_noderef(child.camcalib_ref)
        camera_calibration ==
            IF camera_ref.ok
            THEN Resolve(camera_calibrations, "camera_calibration", camera_ref.val)
            ELSE camera_ref
    IN  IF ~mount_calibration.ok THEN mount_calibration
        ELSE IF ~camera_calibration.ok THEN camera_calibration
        ELSE Bind(ImageFromElement(child, mount_calibration.val,
                                   camera_calibration.val, name, sop),
                  LAMBDA image : IF image.ok THEN Ok(<<image.val.name, image.val>>) ELSE image)

\* Scan::from_element
ScanFromElement(name) == Ok(<<name, [name |-> name]>>)

\* ScanPosition::from_element
ScanPositionFromElement(element, mount_calibrations, camera_calibrations) ==
    Bind(get_matrix4(element.sop), LAMBDA sop :
        IF ~sop.ok THEN sop
        ELSE Bind(MapChildren(ScanFromElement, element.singlescans), LAMBDA scans :
            IF ~scans.ok THEN scans
            ELSE Bind(MapChildren(LAMBDA child :
                                      ScanPosImage(child, mount_calibrations,
                                                   camera_calibrations, element.name, sop.val),
                                  element.scanposimages),
                      LAMBDA images :
                IF ~images.ok THEN images
                ELSE Ok(<<element.name,
                          [name |-> element.name, images |-> images.val,
                           scans |-> scans.val]>>))))

\* GetDescendant::get_children on the root of the project file: the
\* children of the element the path leads to, found by its name among the
\* children of the root wherever it stands
get_children(xml, path) ==
    IF \E i \in 1..Len(xml.children) : xml.children[i] = path[1]
    THEN Ok(xml[path[Len(path)]])
    ELSE Err([type |-> "MissingElement", name |-> path[1]])

\* Project::from_path, on the children of the three elements it reads
FromChildren(mountcalibs, camcalibs, scanpositions) ==
    IF ~mountcalibs.ok THEN mountcalibs
    ELSE Bind(MapChildren(MountCalibrationFromElement, mountcalibs.val),
              LAMBDA mount_calibrations :
        IF ~mount_calibrations.ok THEN mount_calibrations
        ELSE IF ~camcalibs.ok THEN camcalibs
        ELSE Bind(MapChildren(CameraCalibrationFromElement, camcalibs.val),
                  LAMBDA camera_calibrations :
            IF ~camera_calibrations.ok THEN camera_calibrations
            ELSE IF ~scanpositions.ok THEN scanpositions
            ELSE Bind(MapChildren(LAMBDA element :
                                      ScanPositionFromElement(element, mount_calibrations.val,
                                                              camera_calibrations.val),
                                  scanpositions.val),
                      LAMBDA scan_positions :
                IF ~scan_positions.ok THEN scan_positions
                ELSE Ok([scan_positions |-> scan_positions.val]))))

\* one pass over the children of the root: the scan positions are read with
\* the calibrations of the children before them only
ProjectFromPath_single_pass(xml) ==
    LET Seen(path) ==
            IF xml.children[1] = "scanpositions" THEN Ok(<< >>)
            ELSE get_children(xml, path)
    IN  FromChildren(Seen(<<"calibrations", "mountcalibs">>),
                     Seen(<<"calibrations", "camcalibs">>),
                     get_children(xml, <<"scanpositions">>))

\* Project::from_path, on the parsed project file
ProjectFromPath(xml) ==
    FromChildren(get_children(xml, <<"calibrations", "mountcalibs">>),
                 get_children(xml, <<"calibrations", "camcalibs">>),
                 get_children(xml, <<"scanpositions">>))

---------------------------------------------------------------------------
(* project/image.rs: a PRCS point projected into an image and sampled.     *)

\* a pixel whose coordinates are infinite or NaN
NonFinite == [finite |-> FALSE]

Pixel(u, v) == [finite |-> TRUE, u |-> u, v |-> v]

\* Image::project, the distortion for OpenCV version 2
DistortV2(cam, u, v) ==
    Bind(<<FDiv(u - cam.cx, cam.fx), FDiv(v - cam.cy, cam.fy)>>, LAMBDA xy :
    Bind(FSqrt(Powi(Atan(FSqrt(FMul(xy[1], xy[1]) + FMul(xy[2], xy[2]))), 2)), LAMBDA r :
    Bind(FMul(cam.k1, Powi(r, 2)) + FMul(cam.k2, Powi(r, 4))
         + FMul(cam.k3, Powi(r, 6)) + FMul(cam.k4, Powi(r, 8)), LAMBDA expansion :
        LET x == xy[1]
            y == xy[2]
            ud == u + FMul(FMul(x, cam.fx), expansion)
                    + FMul(FMul(FMul(2 * cam.fx, x), y), cam.p1)
                    + FMul(FMul(cam.p2, cam.fx), Powi(r, 2) + 2 * Powi(x, 2))
            vd == v + FMul(FMul(y, cam.fy), expansion)
                    + FMul(FMul(FMul(2 * cam.fy, x), y), cam.p2)
                    + FMul(FMul(cam.p1, cam.fy), Powi(r, 2) + 2 * Powi(y, 2))
        IN  Pixel(ud, vd))))

\* Image::project, once both inverses are there
ProjectWith(self, point, cop_inverse, sop_inverse) ==
    Bind(MatVec(MatMul(MatMul(self.mount_calibration.matrix, cop_inverse), sop_inverse),
                <<point[1], point[2], point[3], Scale>>),
         LAMBDA cmcs :
        LET cam == self.camera_calibration.internal_opencv
            version == self.camera_calibration.version
        IN  IF cmcs[4] # Scale THEN Panic
            ELSE IF version # 2
            THEN Value(Err([type |-> "UnsupportedOpenCvVersion", version |-> version]))
            ELSE Bind(<<FMul(cam.fx, cmcs[1]) + FMul(cam.cx, cmcs[3]),
                        FMul(cam.fy, cmcs[2]) + FMul(cam.cy, cmcs[3]),
                        cmcs[3]>>,
                      LAMBDA ud_prime :
                IF ud_prime[3] = 0 THEN Value(Ok(NonFinite))
                ELSE Bind(<<FDiv(ud_prime[1], ud_prime[3]), FDiv(ud_prime[2], ud_prime[3])>>,
                          LAMBDA uv : Value(Ok(DistortV2(cam, uv[1], uv[2]))))))

\* Image::project
ImageProject(self, point) ==
    Bind(TryInverse(self.cop), LAMBDA cop_inverse :
        IF ~cop_inverse.some
        THEN Value(Err([type |-> "MissingInverse", matrix |-> self.cop]))
        ELSE Bind(TryInverse(self.sop), LAMBDA sop_inverse :
            IF ~sop_inverse.some
            THEN Value(Err([type |-> "MissingInverse", matrix |-> self.sop]))
            ELSE ProjectWith(self, point, cop_inverse.val, sop_inverse.val)))

\* infratec::Image::get
InfratecGet(data, uv) ==
    IF /\ uv.finite
       /\ uv.u > 0 /\ uv.v > 0
       /\ uv.u < data.width * Scale /\ uv.v < data.height * Scale
    THEN Some(data.data[Trunc(uv.v) + 1][Trunc(uv.u) + 1])
    ELSE None

\* Image::color
ImageColor(self, point) ==
    IF ~self.image_data.some
    THEN Value(Err([type |-> "MissingImageData",
                    scan_position_name |-> self.scan_position_name, name |-> self.name]))
    ELSE Bind(ImageProject(self, point), LAMBDA uv :
        IF uv.panic THEN Panic
        ELSE IF ~uv.val.ok THEN uv
        ELSE Value(Ok(InfratecGet(self.image_data.val, uv.val.val))))

---------------------------------------------------------------------------
(* project/scan_position.rs: the colour of a point from the images of a    *)
(* scan position.  order is the order in which the map hands out the       *)
(* images.                                                                 *)

has_data_always(self) == TRUE

\* Image::has_data
has_data(self) == self.image_data.some

\* ScanPosition::color, from the image at place i of the order onwards
RECURSIVE ColorFrom(_, _, _, _)
ColorFrom(self, order, i, point) ==
    IF i > Len(order) THEN Value(Ok(None))
    ELSE IF ~has_data(self.images[order[i]]) THEN ColorFrom(self, order, i + 1, point)
    ELSE Bind(ImageColor(self.images[order[i]], point), LAMBDA color :
        IF color.panic THEN color
        ELSE IF ~color.val.ok THEN color
        ELSE IF color.val.val.some THEN color
        ELSE ColorFrom(self, order, i + 1, point))

\* ScanPosition::color
ScanPositionColor(self, order, point) == ColorFrom(self, order, 1, point)

---------------------------------------------------------------------------
(* point.rs: the conversions between the coordinate reference systems.     *)
(* Each takes the inverse of one transform; Projective3::inverse panics    *)
(* when there is none.                                                     *)

\* Point<Glcs>::to_prcs
Glcs_to_prcs(point, pop) ==
    IF InversePanics(pop) THEN Panic ELSE Value(TransformPoint(Inverse(pop), point))

\* the transform applied, not its inverse
Prcs_to_socs_forward(point, sop) == Value(TransformPoint(sop, point))

\* Point<Prcs>::to_socs
Prcs_to_socs(point, sop) ==
    IF InversePanics(sop) THEN Panic ELSE Value(TransformPoint(Inverse(sop), point))

\* Point<Prcs>::to_glcs
Prcs_to_glcs(point, pop) == Value(TransformPoint(pop, point))

\* Point<Socs>::to_prcs
Socs_to_prcs(point, sop) == Value(TransformPoint(sop, point))

\* the mount calibration applied first, the inverse of cop second
Socs_to_cmcs_mount_first(point, cop, mount_calibration) ==
    IF InversePanics(cop) THEN Panic
    ELSE Value(TransformPoint(MatMul(Inverse(cop), mount_calibration), point))

\* Point<Socs>::to_cmcs
Socs_to_cmcs(point, cop, mount_calibration) ==
    IF InversePanics(cop) THEN Panic
    ELSE Value(TransformPoint(MatMul(mount_calibration, Inverse(cop)), point))

\* Point<Cmcs>::to_socs
Cmcs_to_socs(point, cop, mount_calibration) ==
    IF InversePanics(mount_calibration) THEN Panic
    ELSE Value(TransformPoint(MatMul(cop, Inverse(mount_calibration)), point))

---------------------------------------------------------------------------
(* image.rs: Image, the scan position image of the first revision, with    *)
(* its three transforms [cop, mounting_matrix, sop].                       *)

\* Image::default
Image_default == [cop |-> Identity, mounting_matrix |-> Identity, sop |-> Identity]

\* Image::set_mounting_matrix
Image_set_mounting_matrix(self, mounting_matrix) ==
    [self EXCEPT !.mounting_matrix = mounting_matrix]

\* Image::set_cop
Image_set_cop(self, cop) == [self EXCEPT !.cop = cop]

\* Image::set_sop
Image_set_sop(self, sop) == [self EXCEPT !.sop = sop]

\* cop applied as it is, not its inverse
Image_prcs_to_cmcs_cop_forward(self, point) ==
    IF InversePanics(self.cop) \/ InversePanics(self.sop) THEN Panic
    ELSE Value(TransformPoint(MatMul(MatMul(self.mounting_matrix, self.cop),
                                     Inverse(self.sop)),
                              point))

\* Image::prcs_to_cmcs
Image_prcs_to_cmcs(self, point) ==
    IF InversePanics(self.cop) \/ InversePanics(self.sop) THEN Panic
    ELSE Value(TransformPoint(MatMul(MatMul(self.mounting_matrix, Inverse(self.cop)),
                                     Inverse(self.sop)),
                              point))

---------------------------------------------------------------------------
(* Paths resolved to scan positions and images.  A path is its immediate   *)
(* parent directory's name and its file stem, the stem being the sequence  *)
(* of the parts that " - " separates (no part when the path has no file    *)
(* stem); an image name is such a sequence too.  A project is the map of   *)
(* its scan positions, a scan position the set of its image names.         *)

\* the stem split on " - " decides before the parent directory does
scan_position_from_path_stem_first(self, path) ==
    IF path.stem # << >> /\ path.stem[1] \in DOMAIN self.scan_positions
    THEN Ok(self.scan_positions[path.stem[1]])
    ELSE IF path.parent \in DOMAIN self.scan_positions
    THEN Ok(self.scan_positions[path.parent])
    ELSE IF \E name \in DOMAIN self.scan_positions :
                path.stem \in self.scan_positions[name].images
    THEN Ok(self.scan_positions[CHOOSE name \in DOMAIN self.scan_positions :
                                    path.stem \in self.scan_positions[name].images])
    ELSE Err([type |-> "ScanPositionFromPath", path |-> path])

\* Project::scan_position_from_path
scan_position_from_path(self, path) ==
    IF path.parent \in DOMAIN self.scan_positions
    THEN Ok(self.scan_positions[path.parent])
    ELSE IF path.stem # << >> /\ path.stem[1] \in DOMAIN self.scan_positions
    THEN Ok(self.scan_positions[path.stem[1]])
    ELSE IF \E name \in DOMAIN self.scan_positions :
                path.stem \in self.scan_positions[name].images
    THEN Ok(self.scan_positions[CHOOSE name \in DOMAIN self.scan_positions :
                                    path.stem \in self.scan_positions[name].images])
    ELSE Err([type |-> "ScanPositionFromPath", path |-> path])

\* ScanPosition::image_from_path
image_from_path(self, path) ==
    IF path.stem # << >> /\ path.stem \in self.images
    THEN Ok([name |-> path.stem])
    ELSE Err([type |-> "ImageFromPath", path |-> path])

\* Project::image_from_path
project_image_from_path(self, path) ==
    LET scan_position == scan_position_from_path(self, path)
    IN  IF scan_position.ok THEN image_from_path(scan_position.val, path)
        ELSE scan_position

---------------------------------------------------------------------------
(* element.rs and project/traits.rs: the noderef attribute.  A text is a   *)
(* sequence of characters; an element is [name, noderef] with noderef the  *)
(* attribute's value, None when the element has no such attribute.         *)

\* str::split('/'): the runs between the slashes, empty runs included;
\* a text without a slash is one run
RECURSIVE SplitSlash(_, _, _)
SplitSlash(s, i, run) ==
    IF i > Len(s) THEN <<run>>
    ELSE IF s[i] = "/" THEN <<run>> \o SplitSlash(s, i + 1, << >>)
    ELSE SplitSlash(s, i + 1, Append(run, s[i]))

\* Iterator::last
IteratorLast(items) ==
    IF items = << >> THEN None ELSE Some(items[Len(items)])

\* Option::and_then
AndThen(option, function(_)) ==
    IF option.some THEN function(option.val) ELSE None

last_segment_first(s) == Some(SplitSlash(s, 1, << >>)[1])

\* |s| s.split('/').last()
last_segment(s) == IteratorLast(SplitSlash(s, 1, << >>))

\* Extension::noderef
noderef(self) ==
    Bind(AndThen(self.noderef, last_segment), LAMBDA found :
        IF found.some
        THEN Ok(found.val)
        ELSE Err([type |-> "MissingNoderef", element |-> self]))

\* GetDescendant::get_noderef on the descendant found under name
descendant_noderef(e, name) ==
    Bind(AndThen(e.noderef, last_segment), LAMBDA found :
        IF found.some
        THEN Ok(found.val)
        ELSE Err([type |-> "MissingElement", name |-> name \o ".noderef"]))

---------------------------------------------------------------------------
(* rsp.rs: the camera of a project.  The document is [camcalibs], the      *)
(* camera calibration entries in document order; an entry is a function    *)
(* from the paths of the values it holds to those values.  An XPath is a   *)
(* sequence of its parts.                                                  *)

\* f64::NAN and the other values of Value::number
NaN == [nan |-> TRUE]

Finite(n) == [nan |-> FALSE, val |-> n]

\* f64 as usize: the integer part, zero for NaN and below zero
AsUsize(x) == IF x.nan \/ x.val < 0 THEN 0 ELSE x.val \div Scale

\* the XPath of the camera calibration entries (tests::two_cameras)
CamerasXPath == <<"/project/calibrations/camcalibs/camcalib_opencv">>

\* an XPath that counts them, and so is not a node set
CountXPath == <<"count(/project/calibrations/camcalibs/camcalib_opencv)">>

\* an XPath that selects nothing
NothingXPath == <<"/project/calibrations/camcalibs/camcalib">>

\* an XPath that cannot be parsed
BrokenXPath == <<"/project/calibrations/camcalibs/camcalib_opencv[">>

Nodeset(nodes) == [type |-> "Nodeset", nodes |-> nodes]

Number(n) == [type |-> "Number", number |-> n]

\* the nodes of entries that path selects below them, in document order
RECURSIVE ChildrenAt(_, _)
ChildrenAt(entries, path) ==
    IF entries = << >> THEN << >>
    ELSE (IF path \in DOMAIN Head(entries) THEN <<Head(entries)[path]>> ELSE << >>)
         \o ChildrenAt(Tail(entries), path)

\* sxd_xpath::evaluate_xpath
evaluate_xpath(document, xpath) ==
    IF xpath[1] = BrokenXPath[1] THEN Err([type |-> "XPath"])
    ELSE IF xpath[1] = CountXPath[1] THEN Ok(Number(Finite(Len(document.camcalibs) * Scale)))
    ELSE IF xpath[1] = NothingXPath[1] THEN Ok(Nodeset(<< >>))
    ELSE IF Len(xpath) = 1 THEN Ok(Nodeset(document.camcalibs))
    ELSE Ok(Nodeset(ChildrenAt(document.camcalibs, xpath[2])))

\* Value::number: the number of the first node of a node set
ValueNumber(value) ==
    IF value.type = "Number" THEN value.number
    ELSE IF value.nodes = << >> THEN NaN
    ELSE Finite(value.nodes[1])

\* the closure camera_xpath of Rsp::camera
camera_xpath(document, xpath, s) ==
    Bind(evaluate_xpath(document, xpath \o <<s>>), LAMBDA value :
        IF value.ok THEN Ok(ValueNumber(value.val)) ELSE value)

\* the paths Rsp::camera reads
CameraF64Paths ==
    {"internal_opencv/fx", "internal_opencv/fy", "internal_opencv/cx", "internal_opencv/cy",
     "internal_opencv/k1", "internal_opencv/k2", "internal_opencv/k3", "internal_opencv/k4",
     "internal_opencv/p1", "internal_opencv/p2", "intrinsic_opencv/dx", "intrinsic_opencv/dy"}

CameraUsizePaths == {"intrinsic_opencv/nx", "intrinsic_opencv/ny"}

\* the Camera of Rsp::camera, from the numbers read at each path
CameraOf(numbers) ==
    [fx |-> numbers["internal_opencv/fx"].val, fy |-> numbers["internal_opencv/fy"].val,
     cx |-> numbers["internal_opencv/cx"].val, cy |-> numbers["internal_opencv/cy"].val,
     k1 |-> numbers["internal_opencv/k1"].val, k2 |-> numbers["internal_opencv/k2"].val,
     k3 |-> numbers["internal_opencv/k3"].val, k4 |-> numbers["internal_opencv/k4"].val,
     p1 |-> numbers["internal_opencv/p1"].val, p2 |-> numbers["internal_opencv/p2"].val,
     nx |-> AsUsize(numbers["intrinsic_opencv/nx"].val),
     ny |-> AsUsize(numbers["intrinsic_opencv/ny"].val),
     dx |-> numbers["intrinsic_opencv/dx"].val, dy |-> numbers["intrinsic_opencv/dy"].val]

camera_first(self, xpath) ==
    Bind(evaluate_xpath(self, xpath), LAMBDA value :
        IF ~value.ok THEN value
        ELSE IF value.val.type # "Nodeset" THEN Ok(None)
        ELSE IF Len(value.val.nodes) = 0 THEN Ok(None)
        ELSE Bind([s \in CameraF64Paths \cup CameraUsizePaths |-> camera_xpath(self, xpath, s)],
                  LAMBDA numbers :
                      IF \E s \in DOMAIN numbers : ~numbers[s].ok
                      THEN numbers[CHOOSE s \in DOMAIN numbers : ~numbers[s].ok]
                      ELSE Ok(Some(CameraOf(numbers)))))

\* Rsp::camera
camera(self, xpath) ==
    Bind(evaluate_xpath(self, xpath), LAMBDA value :
        IF ~value.ok THEN value
        ELSE IF value.val.type # "Nodeset" THEN Ok(None)
        ELSE IF Len(value.val.nodes) = 0 THEN Ok(None)
        ELSE IF Len(value.val.nodes) > 1 THEN Err([type |-> "MultipleCameras"])
        ELSE Bind([s \in CameraF64Paths \cup CameraUsizePaths |-> camera_xpath(self, xpath, s)],
                  LAMBDA numbers :
                      IF \E s \in DOMAIN numbers : ~numbers[s].ok
                      THEN numbers[CHOOSE s \in DOMAIN numbers : ~numbers[s].ok]
                      ELSE Ok(Some(CameraOf(numbers)))))

---------------------------------------------------------------------------
(* project.rs: the project of the event reader.  A project is [pop,        *)
(* scan_positions], a scan position [name, pop, scans] with scans the      *)
(* names of its scans; names are texts.                                    *)

\* ScanPosition::set_pop
ScanPosition_set_pop(self, pop) == [self EXCEPT !.pop = pop]

\* ScanPosition::scan: the scan of that name
ScanPosition_scan(self, name) ==
    IF name \in self.scans THEN Some(name) ELSE None

\* Project::new
Project_new == [pop |-> Identity, scan_positions |-> [name \in {} |-> None]]

\* a key that is there is kept and the value put beside it
Insert_beside(map, key, value) ==
    IF key \in DOMAIN map THEN [k \in DOMAIN map \cup {key \o key} |->
                                   IF k = key \o key THEN value ELSE map[k]]
    ELSE [k \in DOMAIN map \cup {key} |-> IF k = key THEN value ELSE map[k]]

\* HashMap::insert
Insert(map, key, value) ==
    [k \in DOMAIN map \cup {key} |-> IF k = key THEN value ELSE map[k]]

\* Project::set_pop
set_pop(self, pop) ==
    [pop |-> pop,
     scan_positions |-> [name \in DOMAIN self.scan_positions |->
                            ScanPosition_set_pop(self.scan_positions[name], pop)]]

add_scan_position_as_given(self, scan_position) ==
    [self EXCEPT !.scan_positions = Insert(self.scan_positions, scan_position.name, scan_position)]

\* Project::add_scan_position
add_scan_position(self, scan_position) ==
    Bind(ScanPosition_set_pop(scan_position, self.pop), LAMBDA positioned :
        [self EXCEPT !.scan_positions = Insert(self.scan_positions, positioned.name, positioned)])

\* Path::components: the runs between the slashes without the empty ones
\* and without the "." ones past the first
Components(name) ==
    Bind(SplitSlash(name, 1, << >>), LAMBDA runs :
        SelectSeq(MapSeq(LAMBDA i : [at |-> i, run |-> runs[i]],
                         [i \in 1..Len(runs) |-> i], Len(runs)),
                  LAMBDA c : c.run # << >> /\ (c.run = <<".">> => c.at = 1)))

\* Path::file_name: the last component unless it is ".", ".." or the root
file_name(name) ==
    Bind(Components(name), LAMBDA components :
        IF components = << >> THEN None
        ELSE IF components[Len(components)].run \in {<<".">>, <<".", ".">>} THEN None
        ELSE Some(components[Len(components)].run))

\* str::split('.').next(): the text up to its first '.'
RECURSIVE UpToDot(_, _)
UpToDot(s, i) ==
    IF i > Len(s) \/ s[i] = "." THEN SubSeq(s, 1, i - 1) ELSE UpToDot(s, i + 1)

\* the scan positions the fallback of Project::scan_position can find
Found(self, name) ==
    Bind(file_name(name), LAMBDA file :
        IF ~file.some THEN {None}
        ELSE Bind(UpToDot(file.val, 1), LAMBDA scan :
            IF \E n \in DOMAIN self.scan_positions :
                    ScanPosition_scan(self.scan_positions[n], scan).some
            THEN {Some(self.scan_positions[n]) :
                    n \in {m \in DOMAIN self.scan_positions :
                            ScanPosition_scan(self.scan_positions[m], scan).some}}
            ELSE {None}))

project_scan_position_scan_first(self, name) ==
    IF None \notin Found(self, name) THEN Found(self, name)
    ELSE IF name \in DOMAIN self.scan_positions
    THEN {Some(self.scan_positions[name])}
    ELSE {None}

\* Project::scan_position: every result the iteration order of the map allows
project_scan_position(self, name) ==
    IF name \in DOMAIN self.scan_positions
    THEN {Some(self.scan_positions[name])}
    ELSE Found(self, name)

---------------------------------------------------------------------------
(* utils.rs: the path of the project file.  A path is a text whose         *)
(* characters are '/', '.' and words; the file system is a function from   *)
(* the canonical paths that exist, as sequences of names, to "dir" or      *)
(* "file".                                                                 *)

PROJECT_RSP == <<"project", ".", "rsp">>

\* the directories and files of the crate's data, and a file named .rsp
FileSystem ==
    (<< >> :> "dir")
    @@ (<< <<"data">> >> :> "dir")
    @@ (<< <<"Cargo", ".", "toml">> >> :> "file")
    @@ (<< <<"data">>, <<"project", ".", "RiSCAN">> >> :> "dir")
    @@ (<< <<"data">>, <<"project", ".", "RiSCAN">>, PROJECT_RSP >> :> "file")
    @@ (<< <<"data">>, <<"empty", ".", "RiSCAN">> >> :> "dir")
    @@ (<< <<"data">>, <<".", "rsp">> >> :> "file")

\* the text of a canonical path
RECURSIVE PathText(_)
PathText(names) ==
    IF names = << >> THEN <<"/">>
    ELSE IF Len(names) = 1 THEN <<"/">> \o names[1]
    ELSE PathText(SubSeq(names, 1, Len(names) - 1)) \o <<"/">> \o names[Len(names)]

\* fs::canonicalize: walks the components from the working directory (the
\* root here); every name on the way has to exist, and only a directory
\* is walked through
RECURSIVE Walk(_, _, _)
Walk(at, components, i) ==
    IF i > Len(components) THEN Ok(PathText(at))
    ELSE IF FileSystem[at] # "dir" THEN Err([type |-> "Io", kind |-> "NotADirectory"])
    ELSE IF components[i].run = <<".">> THEN Walk(at, components, i + 1)
    ELSE IF components[i].run = <<".", ".">>
    THEN Walk(SubSeq(at, 1, Len(at) - 1), components, i + 1)
    ELSE IF Append(at, components[i].run) \notin DOMAIN FileSystem
    THEN Err([type |-> "Io", kind |-> "NotFound"])
    ELSE Walk(Append(at, components[i].run), components, i + 1)

canonicalize(path) ==
    IF path = << >> THEN Err([type |-> "Io", kind |-> "NotFound"])
    ELSE Bind(Components(path), LAMBDA components : Walk(<< >>, components, 1))

\* the place of the last '.' of a file name, 0 when it has none
RECURSIVE LastDot(_, _)
LastDot(file, i) ==
    IF i = 0 THEN 0 ELSE IF file[i] = "." THEN i ELSE LastDot(file, i - 1)

\* Path::extension: what follows the last '.' of the file name, unless
\* that '.' starts the name
extension(path) ==
    Bind(file_name(path), LAMBDA file :
        IF ~file.some THEN None
        ELSE Bind(LastDot(file.val, Len(file.val)), LAMBDA dot :
            IF dot <= 1 THEN None
            ELSE Some(SubSeq(file.val, dot + 1, Len(file.val)))))

\* PathBuf::push of a relative path
Push(path, name) ==
    IF path[Len(path)] = "/" THEN path \o name ELSE path \o <<"/">> \o name

rsp_path_uncanonical(path) ==
    Bind(extension(path), LAMBDA found :
        IF ~found.some THEN Err([type |-> "ProjectPath", path |-> path])
        ELSE IF found.val = <<"RiSCAN">> THEN Ok(Push(path, PROJECT_RSP))
        ELSE IF found.val = <<"rsp">> THEN Ok(path)
        ELSE Err([type |-> "ProjectPath", path |-> path]))

\* utils::rsp_path
rsp_path(path) ==
    Bind(canonicalize(path), LAMBDA canonical :
        IF ~canonical.ok THEN canonical
        ELSE Bind(extension(canonical.val), LAMBDA found :
            IF ~found.some THEN Err([type |-> "ProjectPath", path |-> canonical.val])
            ELSE IF found.val = <<"RiSCAN">> THEN Ok(Push(canonical.val, PROJECT_RSP))
            ELSE IF found.val = <<"rsp">> THEN Ok(canonical.val)
            ELSE Err([type |-> "ProjectPath", path |-> canonical.val])))

---------------------------------------------------------------------------
(* infratec.rs: Header, the header of an Infratec csv file.  The reader is *)
(* given the lines of the file, every line a sequence of characters.       *)

SettingsLine ==
    <<"[", "S", "e", "t", "t", "i", "n", "g", "s", "]">>

DataLine ==
    <<"[", "D", "a", "t", "a", "]">>

ImageHeight ==
    <<"I", "m", "a", "g", "e", "H", "e", "i", "g", "h", "t">>

ImageWidth ==
    <<"I", "m", "a", "g", "e", "W", "i", "d", "t", "h">>

Version ==
    <<"V", "e", "r", "s", "i", "o", "n">>

\* #[derive(Default)] of Header
Header_default == [version |-> 0, width |-> 0, height |-> 0]

\* str::split(sep) of the first n characters: the runs between the
\* separators, the empty runs included
RECURSIVE SplitOn(_, _, _)
SplitOn(s, sep, n) ==
    IF n = 0 THEN <<<<>>>>
    ELSE Bind(SplitOn(s, sep, n - 1), LAMBDA words :
             IF s[n] = sep THEN Append(words, <<>>)
             ELSE [words EXCEPT ![Len(words)] = Append(@, s[n])])

\* line.split('=').collect::<Vec<_>>()
split(line, sep) == SplitOn(line, sep, Len(line))

\* str::parse::<usize>: an optional plus sign and digits; the values of the
\* lines here stay far below the twenty digits at which usize overflows
ParseUsize(tok) ==
    LET t == IF tok # <<>> /\ tok[1] = "+" THEN Tail(tok) ELSE tok
    IN  IF t # <<>> /\ AllDigits(t)
        THEN Ok(DigitsValue(t, Len(t)))
        ELSE Err([type |-> "ParseInt"])

\* the closure next_line of Header::new, after `read` lines were read
next_line(lines, read) ==
    IF read < Len(lines) THEN Ok(lines[read + 1])
    ELSE Err([type |-> "ReadInfratec", message |-> "Unexpected EOF"])

\* the function returns the result
Returns(result) == [returns |-> TRUE, result |-> result]

\* the loop goes on with the header
Continues(header) == [returns |-> FALSE, header |-> header]

\* the first line of Header::new, given what next_line gave
FirstLine(first_line) ==
    IF ~first_line.ok THEN Returns(first_line)
    ELSE IF first_line.val # SettingsLine
    THEN Returns(Err([type |-> "ReadInfratec", message |-> "Invalid first line",
                      line |-> first_line.val]))
    ELSE Continues(Header_default)

\* a pass of the loop in which a line without text fails as a line without
\* '=' does
HeaderLine_no_empty_lines(header, line) ==
    IF ~line.ok THEN Returns(line)
    ELSE IF line.val = DataLine THEN Returns(Ok(header))
    ELSE Bind(split(line.val, "="), LAMBDA words :
        IF Len(words) # 2
        THEN Returns(Err([type |-> "ReadInfratec", message |-> "Invalid header line",
                          line |-> line.val]))
        ELSE IF words[1] = ImageHeight
        THEN Bind(ParseUsize(words[2]), LAMBDA parsed :
                 IF parsed.ok THEN Continues([header EXCEPT !.height = parsed.val])
                 ELSE Returns(parsed))
        ELSE IF words[1] = ImageWidth
        THEN Bind(ParseUsize(words[2]), LAMBDA parsed :
                 IF parsed.ok THEN Continues([header EXCEPT !.width = parsed.val])
                 ELSE Returns(parsed))
        ELSE IF words[1] = Version
        THEN Bind(ParseU8(words[2]), LAMBDA parsed :
                 IF parsed.ok THEN Continues([header EXCEPT !.version = parsed.val])
                 ELSE Returns(parsed))
        ELSE Continues(header))

\* a pass of the loop of Header::new, given what next_line gave
HeaderLine(header, line) ==
    IF ~line.ok THEN Returns(line)
    ELSE IF line.val = DataLine THEN Returns(Ok(header))
    ELSE IF line.val = <<>> THEN Continues(header)
    ELSE Bind(split(line.val, "="), LAMBDA words :
        IF Len(words) # 2
        THEN Returns(Err([type |-> "ReadInfratec", message |-> "Invalid header line",
                          line |-> line.val]))
        ELSE IF words[1] = ImageHeight
        THEN Bind(ParseUsize(words[2]), LAMBDA parsed :
                 IF parsed.ok THEN Continues([header EXCEPT !.height = parsed.val])
                 ELSE Returns(parsed))
        ELSE IF words[1] = ImageWidth
        THEN Bind(ParseUsize(words[2]), LAMBDA parsed :
                 IF parsed.ok THEN Continues([header EXCEPT !.width = parsed.val])
                 ELSE Returns(parsed))
        ELSE IF words[1] = Version
        THEN Bind(ParseU8(words[2]), LAMBDA parsed :
                 IF parsed.ok THEN Continues([header EXCEPT !.version = parsed.val])
                 ELSE Returns(parsed))
        ELSE Continues(header))

---------------------------------------------------------------------------
(* Decimal arithmetic standing for f64 where twelve places are needed.     *)
(* A number is five limbs of four decimal digits, the lowest first: three  *)
(* limbs of fraction, then the integer part, whose last limb carries the   *)
(* sign (the limbs before it are in 0..9999).  Every product and quotient  *)
(* is rounded to twelve places.                                            *)

\* let (x, y) = (a, b); In(x, y): a and b are evaluated once
Bind2(a, b, In(_, _)) == CHOOSE r \in {In(x, y) : x \in {a}, y \in {b}} : TRUE

\* what the first i columns carry into the next
RECURSIVE CarryInto(_, _)
CarryInto(cols, i) ==
    IF i = 0 THEN 0 ELSE (cols[i] + CarryInto(cols, i - 1)) \div 10000

\* the first n limbs of the column sums
RECURSIVE LimbsTo(_, _)
LimbsTo(cols, n) ==
    IF n = 0 THEN << >>
    ELSE Append(LimbsTo(cols, n - 1),
                (cols[n] + CarryInto(cols, n - 1)) % 10000)

\* column sums brought back to limbs; the last column keeps what is left
Carried(cols) ==
    Bind(cols, LAMBDA c :
        Append(LimbsTo(c, Len(c) - 1), c[Len(c)] + CarryInto(c, Len(c) - 1)))

\* the number whole.f1f2f3, each f a group of four digits
Dec(whole, f1, f2, f3) == <<f3, f2, f1, whole, 0>>

DZero == Dec(0, 0, 0, 0)

DOne == Dec(1, 0, 0, 0)

DHalf == Dec(0, 5000, 0, 0)

\* an integer as f64
DInt(n) == Carried(<<0, 0, 0, n, 0>>)

DIsNeg(a) == a[Len(a)] < 0

\* the columns of x + sign * y
RECURSIVE ColsTo(_, _, _, _)
ColsTo(x, y, sign, n) ==
    IF n = 0 THEN << >>
    ELSE Append(ColsTo(x, y, sign, n - 1),
                x[n] + (IF n <= Len(y) THEN sign * y[n] ELSE 0))

\* a + b
DAdd(a, b) == Bind2(a, b, LAMBDA x, y : Carried(ColsTo(x, y, 1, Len(x))))

\* a - b
DSub(a, b) == Bind2(a, b, LAMBDA x, y : Carried(ColsTo(x, y, -1, Len(x))))

\* -a
DNeg(a) == Bind(a, LAMBDA x : Carried(ColsTo(DZero, x, -1, 5)))

DAbs(a) == Bind(a, LAMBDA x : IF DIsNeg(x) THEN DNeg(x) ELSE x)

\* a < b
DLess(a, b) == DIsNeg(DSub(a, b))

\* the columns of x * n for a small integer n
RECURSIVE ScaledTo(_, _, _)
ScaledTo(x, n, i) ==
    IF i = 0 THEN << >> ELSE Append(ScaledTo(x, n, i - 1), x[i] * n)

\* a * n for a small integer n
DScale(a, n) == Bind2(a, n, LAMBDA x, k : Carried(ScaledTo(x, k, Len(x))))

\* the k-th column of the product of the limbs of x and y
RECURSIVE ColSum(_, _, _, _)
ColSum(x, y, k, i) ==
    IF i > 5 \/ i > k THEN 0
    ELSE (IF k + 1 - i <= 5 THEN x[i] * y[k + 1 - i] ELSE 0)
         + ColSum(x, y, k, i + 1)

\* the first k columns of the product, a half added where it is cut
RECURSIVE ProductTo(_, _, _)
ProductTo(x, y, k) ==
    IF k = 0 THEN << >>
    ELSE Append(ProductTo(x, y, k - 1),
                ColSum(x, y, k, 1) + (IF k = 3 THEN 5000 ELSE 0))

\* a * b, rounded
DMul(a, b) ==
    Bind2(a, b, LAMBDA x, y :
        Bind(Carried(ProductTo(x, y, 9)),
             LAMBDA p : <<p[4], p[5], p[6], p[7], p[8] + 10000 * p[9]>>))

\* the place of the highest limb of d that is not zero, from the i-th down
RECURSIVE TopLimb(_, _)
TopLimb(d, i) == IF d[i] # 0 THEN i ELSE TopLimb(d, i - 1)

\* d put back onto r while r is below zero, the quotient limb q with it
RECURSIVE AddBack(_, _, _)
AddBack(r, d, q) ==
    Bind2(r, q, LAMBDA v, k :
        IF DIsNeg(v) THEN AddBack(DAdd(v, d), d, k - 1)
        ELSE [r |-> v, q |-> k])

\* the limb of the quotient guessed from the highest limbs of r and d
Guess(r, d, m) ==
    Bind((r[m + 1] * 10000 + r[m]) \div d[m],
         LAMBDA q : IF q > 9999 THEN 9999 ELSE q)

\* long division of the limbs of x by d, whose highest limb is the m-th and
\* at least 5000, limb by limb from the p-th down
RECURSIVE DivStep(_, _, _, _, _, _)
DivStep(x, d, m, p, r, out) ==
    IF p = 0 THEN out
    ELSE Bind2(<<x[p]>> \o SubSeq(r, 1, 6), p - 1, LAMBDA r1, p1 :
            Bind(Guess(r1, d, m), LAMBDA q :
                Bind(AddBack(DSub(r1, DScale(d, q)), d, q), LAMBDA s :
                    DivStep(x, d, m, p1, s.r, <<s.q>> \o out))))

\* a / b for a >= 0 and b > 0: both scaled so that the highest limb of b is
\* at least 5000
DivPositive(a, b) ==
    Bind2(a, b, LAMBDA n, d :
        Bind(TopLimb(d, 5), LAMBDA m :
            Bind2(DScale(<<0, 0, 0>> \o n \o <<0>>, 10000 \div (d[m] + 1)),
                  DScale(d, 10000 \div (d[m] + 1)),
                  LAMBDA x, y :
                    SubSeq(DivStep(x, y, m, 9, <<0, 0, 0, 0, 0, 0, 0>>, << >>),
                           1, 5))))

\* a / b for b # 0
DDiv(a, b) ==
    Bind2(a, b, LAMBDA x, y :
        IF DIsNeg(x) = DIsNeg(y) THEN DivPositive(DAbs(x), DAbs(y))
        ELSE DNeg(DivPositive(DAbs(x), DAbs(y))))

\* a / n for a >= 0 and a small integer n > 0: what is left of the limbs
\* above the i-th
RECURSIVE LeftAbove(_, _, _)
LeftAbove(x, n, i) ==
    IF i > 5 THEN 0 ELSE (LeftAbove(x, n, i + 1) * 10000 + x[i]) % n

\* the first i limbs of a / n
RECURSIVE DivSmallTo(_, _, _)
DivSmallTo(x, n, i) ==
    IF i = 0 THEN << >>
    ELSE Append(DivSmallTo(x, n, i - 1),
                (LeftAbove(x, n, i + 1) * 10000 + x[i]) \div n)

DivSmall(a, n) == Bind2(a, n, LAMBDA x, k : DivSmallTo(x, k, 5))

\* Newton's iteration for the square root of a > 0 from s >= sqrt(a)
RECURSIVE SqrtFrom(_, _)
SqrtFrom(a, s) ==
    Bind(DMul(DAdd(s, DDiv(a, s)), DHalf), LAMBDA n :
        IF DLess(n, s) THEN SqrtFrom(a, n) ELSE s)

\* f64::sqrt for a >= 0
DSqrt(a) ==
    Bind(a, LAMBDA x :
        IF x = DZero THEN DZero
        ELSE Bind(DMul(DAdd(x, DOne), DHalf), LAMBDA s : SqrtFrom(x, s)))

\* tan(t/2) from tan(t)
HalfAngle(t) ==
    Bind(t, LAMBDA x : DDiv(x, DAdd(DOne, DSqrt(DAdd(DOne, DMul(x, x))))))

\* the n-th term of the series t - t^3/3 + t^5/5 - ...
SeriesTerm(power, n) ==
    IF n % 2 = 0 THEN DivSmall(power, 2 * n + 1)
    ELSE DNeg(DivSmall(power, 2 * n + 1))

\* the series from the n-th term on, power being t^(2n+1)
RECURSIVE DAtanSeries(_, _, _, _)
DAtanSeries(power, square, n, sum) ==
    IF power = DZero THEN sum
    ELSE Bind2(DMul(power, square), DAdd(sum, SeriesTerm(power, n)),
               LAMBDA next, s : DAtanSeries(next, square, n + 1, s))

\* f64::atan for t >= 0
DAtan(t) ==
    Bind(HalfAngle(HalfAngle(t)), LAMBDA q :
        Bind(DMul(q, q), LAMBDA square :
            DScale(DAtanSeries(q, square, 0, DZero), 4)))

\* f64::powi
RECURSIVE DPowi(_, _)
DPowi(a, n) == IF n = 0 THEN DOne ELSE DMul(DPowi(a, n - 1), a)

---------------------------------------------------------------------------
(* camera.rs: Camera, the calibration of the first revision.  A camera is  *)
(* [fx, fy, cx, cy, k1, k2, k3, k4, p1, p2] and a point <<x, y, z>>, all   *)
(* decimal numbers.                                                        *)

\* k1 r^2 + k2 r^4 + k3 r^6 + k4 r^8
RadialTerm(self, r) ==
    Bind(r, LAMBDA radius :
        DAdd(DAdd(DAdd(DMul(self.k1, DPowi(radius, 2)),
                       DMul(self.k2, DPowi(radius, 4))),
                  DMul(self.k3, DPowi(radius, 6))),
             DMul(self.k4, DPowi(radius, 8))))

\* (x.powi(2) + y.powi(2)).sqrt().powi(2).sqrt(): the radius taken as it is
Radius_without_atan(x, y) ==
    DSqrt(DPowi(DSqrt(DAdd(DPowi(x, 2), DPowi(y, 2))), 2))

\* (x.powi(2) + y.powi(2)).sqrt().atan().powi(2).sqrt()
Radius(x, y) ==
    DSqrt(DPowi(DAtan(DSqrt(DAdd(DPowi(x, 2), DPowi(y, 2)))), 2))

\* u + x fx r_term + 2 fx x y p1 + p2 fx (r^2 + 2 x^2), and v with fy and
\* the tangential coefficients exchanged
Distorted(u, x, y, f, r, r_term, pa, pb) ==
    DAdd(DAdd(DAdd(u, DMul(DMul(x, f), r_term)),
              DMul(DMul(DMul(DScale(f, 2), x), y), pa)),
         DMul(DMul(pb, f), DAdd(DPowi(r, 2), DScale(DPowi(x, 2), 2))))

\* Camera::cmcs_to_ics; a point with z = 0 divides by zero
Camera_cmcs_to_ics(self, point) ==
    IF point[3] = DZero THEN NonFinite
    ELSE Bind2(DDiv(DAdd(DMul(self.fx, point[1]), DMul(self.cx, point[3])),
                    point[3]),
               DDiv(DAdd(DMul(self.fy, point[2]), DMul(self.cy, point[3])),
                    point[3]),
               LAMBDA u, v :
         Bind2(DDiv(DSub(u, self.cx), self.fx), DDiv(DSub(v, self.cy), self.fy),
               LAMBDA x, y :
         Bind(Radius(x, y), LAMBDA r :
         Bind(RadialTerm(self, r), LAMBDA r_term :
            Pixel(Distorted(u, x, y, self.fx, r, r_term, self.p1, self.p2),
                  Distorted(v, y, x, self.fy, r, r_term, self.p2, self.p1))))))

---------------------------------------------------------------------------
(* The values the model draws its inputs from.                             *)

MaxCoord == 2

Coords == {k * Scale : k \in (-MaxCoord)..MaxCoord}

Points == {Point(x, y, z) : x \in Coords, y \in Coords, z \in Coords}

\* the points whose colour is asked: two planes of the grid
PrcsPoints == {p \in Points : p[3] \in {0, MaxCoord * Scale}}

\* a pinhole camera without distortion, one pixel wide and two high
PinholeCalibration ==
    [name |-> "pinhole",
     cx |-> 0, cy |-> 0, fx |-> Scale, fy |-> Scale,
     k1 |-> 0, k2 |-> 0, k3 |-> 0, k4 |-> 0, p1 |-> 0, p2 |-> 0,
     tan_max_horz |-> Scale, tan_max_vert |-> Scale,
     tan_min_horz |-> -Scale, tan_min_vert |-> -Scale,
     width |-> 1, height |-> 2]

\* a camera with radial and tangential distortion, three pixels by three
DistortedCalibration ==
    [name |-> "distorted",
     cx |-> Scale, cy |-> Scale, fx |-> 2 * Scale, fy |-> 2 * Scale,
     k1 |-> F(-4, 10), k2 |-> F(1, 10), k3 |-> F(-1, 10), k4 |-> F(1, 100),
     p1 |-> F(1, 100), p2 |-> F(-1, 100),
     tan_max_horz |-> F(1, 2), tan_max_vert |-> Scale,
     tan_min_horz |-> -Scale, tan_min_vert |-> F(-1, 2),
     width |-> 3, height |-> 3]

Calibrations == {PinholeCalibration, DistortedCalibration}

\* a quarter turn about the z axis, moved one unit along z
QuarterTurn ==
    Matrix4(<<0, -Scale, 0, 0>>, <<Scale, 0, 0, 0>>, <<0, 0, Scale, Scale>>, <<0, 0, 0, Scale>>)

\* x and z exchanged, every length doubled
Doubling ==
    Matrix4(<<0, 0, 2 * Scale, 0>>, <<0, 2 * Scale, 0, 0>>, <<2 * Scale, 0, 0, 0>>, <<0, 0, 0, Scale>>)

\* every length tripled, then moved one unit along x and back one along z
Tripling ==
    Matrix4(<<3 * Scale, 0, 0, Scale>>, <<0, 3 * Scale, 0, 0>>,
            <<0, 0, 3 * Scale, -Scale>>, <<0, 0, 0, Scale>>)

\* the transforms the points are converted with
Transforms == {QuarterTurn, Doubling, Tripling}

\* the mount calibrations the points are converted with
Mounts == {Identity, QuarterTurn}

Projectives == {Identity, QuarterTurn, Doubling}

Irbs ==
    {[width |-> 2, height |-> 2,
      data |-> <<<<F(20, 1), F(21, 1)>>, <<F(30, 1), F(31, 1)>>>>]}

Colorizers ==
    {[camera_calibration |-> c,
      image |-> [name |-> "Image001", cop |-> cop,
                 camera_calibration_name |-> c.name,
                 mount_calibration_name |-> "mount"],
      irb |-> irb,
      mount_calibration |-> [matrix |-> m, name |-> "mount"]] :
        c \in Calibrations, cop \in Projectives, m \in {Identity, QuarterTurn}, irb \in Irbs}

PixelCoords ==
    {k * Scale + d : k \in 0..(MaxCoord + 1), d \in {-1, 0, 1}} \cup {-Scale}

\* a scan position of the given name and image names
PathScanPosition(name, images) == [name |-> name, images |-> images]

\* projects of two scan positions; in the second project SP01 holds an
\* image named after SP02, in the third there is no SP02
PathProjects ==
    {[scan_positions |->
        ("SP01" :> PathScanPosition("SP01", {<<"SP01", "Image001">>}))
        @@ ("SP02" :> PathScanPosition("SP02", {<<"SP02", "Image001">>, <<"Image003">>}))],
     [scan_positions |->
        ("SP01" :> PathScanPosition("SP01", {<<"SP01", "Image001">>, <<"SP02", "Image002">>}))
        @@ ("SP02" :> PathScanPosition("SP02", {<<"SP02", "Image001">>}))],
     [scan_positions |->
        ("SP01" :> PathScanPosition("SP01", {<<"SP01", "Image001">>, <<"SP02", "Image002">>,
                                            <<"Image003">>}))]}

\* the paths: a file in a directory
Paths ==
    {[parent |-> parent, stem |-> stem] :
        parent \in {"SP01", "SP02", "SCANPOSIMAGES", "data"},
        stem \in {<< >>, <<"SP01", "Image001">>, <<"SP02", "Image001">>,
                  <<"SP02", "Image002">>, <<"Image003">>, <<"SP01">>, <<"SP03", "Image001">>}}

\* the longest noderef value tried
MaxRef == 4

\* the characters of a noderef value
RefChars == {"/", "a", "b"}

RefTexts == UNION {[1..n -> RefChars] : n \in 0..MaxRef}

\* elements with and without a noderef attribute
RefElements ==
    {[name |-> "camcalib_ref", noderef |-> r] :
        r \in {None} \cup {Some(s) : s \in RefTexts}}

\* the most camera calibration entries in a project file
MaxCameras == 3

\* an entry with every value, in the style of data/project.RiSCAN
WholeEntry ==
    [s \in CameraF64Paths \cup CameraUsizePaths |->
        IF s \in CameraUsizePaths THEN 2 * Scale ELSE Scale]

\* another camera
OtherEntry ==
    [s \in CameraF64Paths \cup CameraUsizePaths |->
        IF s \in CameraUsizePaths THEN 3 * Scale ELSE F(1, 2)]

\* an entry without its k4 and its nx
PartEntry ==
    [s \in (CameraF64Paths \cup CameraUsizePaths) \ {"internal_opencv/k4", "intrinsic_opencv/nx"} |->
        Scale]

CameraEntries == {WholeEntry, OtherEntry, PartEntry}

Rsps == {[camcalibs |-> entries] :
            entries \in UNION {[1..n -> CameraEntries] : n \in 0..MaxCameras}}

XPaths == {CamerasXPath, CountXPath, NothingXPath, BrokenXPath}

\* the longest name asked for
MaxName == 4

NameChars == {"/", ".", "a", "b"}

\* the names a scan position is asked for by
AskedNames == UNION {[1..n -> NameChars] : n \in 0..MaxName}

\* the names of scan positions and of scans
GivenNames == {<<"a">>, <<"b">>, <<"a", ".", "b">>}

ScanNames == {<<"a">>, <<"b">>}

\* the scan positions handed to a project, read with any pop
GivenScanPositions ==
    {[name |-> name, pop |-> pop, scans |-> scans] :
        name \in GivenNames, pop \in {Identity, QuarterTurn},
        scans \in {{}} \cup {{scan} : scan \in ScanNames}}

Pops == {Identity, QuarterTurn, Doubling}

\* the most names in a path handed to rsp_path
MaxDepth == 3

\* the names the paths are made of
PathNames ==
    {<<"data">>, <<"project", ".", "RiSCAN">>, PROJECT_RSP, <<"empty", ".", "RiSCAN">>,
     <<"Cargo", ".", "toml">>, <<".", "rsp">>, <<".">>, <<".", ".">>, <<"notaproject">>}

\* names joined with slashes
RECURSIVE JoinNames(_)
JoinNames(names) ==
    IF Len(names) = 1 THEN names[1]
    ELSE names[1] \o <<"/">> \o JoinNames(Tail(names))

RspPaths ==
    {<< >>} \cup {JoinNames(names) : names \in UNION {[1..n -> PathNames] : n \in 1..MaxDepth}}

\* the images read from csv files: two by two, and three wide and one high
InfratecImages ==
    {[width |-> 2, height |-> 2,
      data |-> <<<<F(20, 1), F(21, 1)>>, <<F(30, 1), F(31, 1)>>>>],
     [width |-> 3, height |-> 1,
      data |-> <<<<F(40, 1), F(41, 1), F(42, 1)>>>>]}

---------------------------------------------------------------------------
(* Matrix texts: a run of tokens taken from a matrix written row by row,   *)
(* possibly with one token corrupted, joined by one of two separators.     *)

MaxTokens == 17

Zero == <<"0">>

One == <<"1">>

\* the identity moved by (2, -1, 0.5)
TranslationTokens ==
    <<One, Zero, Zero, <<"2">>,
      Zero, One, Zero, <<"-", "1">>,
      Zero, Zero, One, <<"0", ".", "5">>,
      Zero, Zero, Zero, One>>

\* QuarterTurn
QuarterTurnTokens ==
    <<Zero, <<"-", "1">>, Zero, Zero,
      One, Zero, Zero, Zero,
      Zero, Zero, <<"1", ".">>, <<"+", "1">>,
      Zero, Zero, Zero, One>>

\* the first two rows are equal: determinant 0
SingularTokens ==
    <<One, Zero, Zero, <<"3">>,
      One, Zero, Zero, <<"3">>,
      Zero, Zero, One, Zero,
      Zero, Zero, Zero, One>>

MatrixTokens == {TranslationTokens, QuarterTurnTokens, SingularTokens}

\* tokens that are no f64 literal
BadTokens == {<<"x">>, <<"-">>, <<"1", ".", "0", ".">>}

TakeTokens(base, n) == [k \in 1..n |-> base[((k - 1) % 16) + 1]]

TokenLists ==
    LET plain == {TakeTokens(base, n) : base \in MatrixTokens, n \in 0..MaxTokens}
    IN  plain \cup UNION {{[t EXCEPT ![k] = bad] :
                              k \in {1, 16, MaxTokens} \cap (1..Len(t)), bad \in BadTokens} :
                            t \in plain}

\* <<separator, padding at both ends>>
Styles == {<<<<" ">>, <<>>>>, <<<<"\n", " ">>, <<" ">>>>}

\* the first n tokens, the separator between them
RECURSIVE Join(_, _, _)
Join(tokens, sep, n) ==
    IF n = 0 THEN <<>>
    ELSE IF n = 1 THEN tokens[1]
    ELSE Join(tokens, sep, n - 1) \o sep \o tokens[n]

Render(tokens, style) == style[2] \o Join(tokens, style[1], Len(tokens)) \o style[2]

Texts == {Render(tokens, style) : tokens \in TokenLists, style \in Styles}

---------------------------------------------------------------------------
(* Project files: a well-formed project of two mount calibrations, two     *)
(* camera calibrations and two scan positions with three images, and the   *)
(* same project with one or two of its values replaced.                    *)

IdentityTokens ==
    <<One, Zero, Zero, Zero,
      Zero, One, Zero, Zero,
      Zero, Zero, One, Zero,
      Zero, Zero, Zero, One>>

Plain == <<<<" ">>, <<>>>>

IdentityText == Render(IdentityTokens, Plain)

TranslationText == Render(TranslationTokens, Plain)

QuarterTurnText == Render(QuarterTurnTokens, Plain)

SingularText == Render(SingularTokens, Plain)

\* a row is missing
ShortText == Render(TakeTokens(TranslationTokens, 12), Plain)

\* the last token is no number
BadText == Render([TranslationTokens EXCEPT ![16] = <<"x">>], Plain)

\* the identity with 2 as its last entry: the last row is not 0 0 0 1
DoubledTokens == [IdentityTokens EXCEPT ![16] = <<"2">>]

DoubledText == Render(DoubledTokens, Plain)

\* what a matrix text is replaced by
MatrixVariants == <<SingularText, ShortText, BadText>>

\* what the matrix text of a mount calibration is replaced by
MountVariants == MatrixVariants \o <<DoubledText>>

\* what a version text is replaced by
VersionVariants == <<<<"1">>, <<"x">>>>

\* internal_opencv, its numbers already parsed
Internal(c) ==
    [cx |-> c.cx, cy |-> c.cy, fx |-> c.fx, fy |-> c.fy,
     k1 |-> c.k1, k2 |-> c.k2, k3 |-> c.k3, k4 |-> c.k4, p1 |-> c.p1, p2 |-> c.p2]

\* a readable image file of two by two values, and one that is not readable
GoodCsv ==
    [readable |-> TRUE, width |-> 2, height |-> 2,
     data |-> <<<<F(20, 1), F(21, 1)>>, <<F(30, 1), F(31, 1)>>>>]

CorruptCsv == [readable |-> FALSE]

\* the values that can be replaced, and in how many ways each
SiteVariants ==
    ("root.children" :> 1) @@ ("mount1.matrix" :> 4) @@ ("mount2.matrix" :> 4) @@ ("mount2.name" :> 1)
    @@ ("cam1.element" :> 1) @@ ("cam1.version" :> 2)
    @@ ("cam2.element" :> 1) @@ ("cam2.version" :> 2)
    @@ ("sp1.sop" :> 3) @@ ("sp2.sop" :> 3) @@ ("sp2.name" :> 1)
    @@ ("sp1.image1.mountcalib_ref" :> 1) @@ ("sp1.image1.camcalib_ref" :> 1)
    @@ ("sp1.image1.cop" :> 3) @@ ("sp1.image1.csv" :> 1)
    @@ ("sp1.image2.mountcalib_ref" :> 1) @@ ("sp1.image2.camcalib_ref" :> 1)
    @@ ("sp1.image2.cop" :> 3) @@ ("sp1.image2.csv" :> 1)
    @@ ("sp2.image1.mountcalib_ref" :> 1) @@ ("sp2.image1.camcalib_ref" :> 1)
    @@ ("sp2.image1.cop" :> 3) @@ ("sp2.image1.csv" :> 1)

Replacements ==
    UNION {{[site |-> s, variant |-> v] : v \in 1..SiteVariants[s]} : s \in DOMAIN SiteVariants}

ReplacementSets ==
    {{}} \cup {{d} : d \in Replacements}
         \cup {{p[1], p[2]} : p \in {q \in Replacements \X Replacements : q[1].site # q[2].site}}

\* the project file with the replacements D made
Document(D) ==
    LET Pick(site, default, variants) ==
            IF \E d \in D : d.site = site
            THEN variants[(CHOOSE d \in D : d.site = site).variant]
            ELSE default
        MountRef(site, name) ==
            Pick(site, <<"calibrations", "mountcalibs", name>>,
                 <<<<"calibrations", "mountcalibs", "NoMount">>>>)
        CamRef(site, name) ==
            Pick(site, <<"calibrations", "camcalibs", name>>,
                 <<<<"calibrations", "camcalibs", "NoCam">>>>)
    IN  [children |-> Pick("root.children", <<"calibrations", "scanpositions">>,
                           <<<<"scanpositions", "calibrations">>>>),
         mountcalibs |-> <<
            [name |-> "Mount1",
             matrix |-> Pick("mount1.matrix", IdentityText, MountVariants)],
            [name |-> Pick("mount2.name", "Mount2", <<"Mount1">>),
             matrix |-> Pick("mount2.matrix", QuarterTurnText, MountVariants)]>>,
         camcalibs |-> <<
            [element |-> Pick("cam1.element", "camcalib_opencv", <<"camcalib_other">>),
             name |-> "Cam1",
             version |-> Pick("cam1.version", <<"2">>, VersionVariants),
             internal_opencv |-> Internal(PinholeCalibration)],
            [element |-> Pick("cam2.element", "camcalib_opencv", <<"camcalib_other">>),
             name |-> "Cam2",
             version |-> Pick("cam2.version", <<"2">>, VersionVariants),
             internal_opencv |-> Internal(DistortedCalibration)]>>,
         scanpositions |-> <<
            [name |-> "SP01",
             sop |-> Pick("sp1.sop", TranslationText, MatrixVariants),
             singlescans |-> <<"151120_150227">>,
             scanposimages |-> <<
                [name |-> "Image001",
                 mountcalib_ref |-> MountRef("sp1.image1.mountcalib_ref", "Mount1"),
                 camcalib_ref |-> CamRef("sp1.image1.camcalib_ref", "Cam1"),
                 cop |-> Pick("sp1.image1.cop", QuarterTurnText, MatrixVariants),
                 csv |-> Pick("sp1.image1.csv", Some(GoodCsv), <<Some(CorruptCsv)>>)],
                [name |-> "Image002",
                 mountcalib_ref |-> MountRef("sp1.image2.mountcalib_ref", "Mount2"),
                 camcalib_ref |-> CamRef("sp1.image2.camcalib_ref", "Cam2"),
                 cop |-> Pick("sp1.image2.cop", IdentityText, MatrixVariants),
                 csv |-> Pick("sp1.image2.csv", None, <<Some(CorruptCsv)>>)]>>],
            [name |-> Pick("sp2.name", "SP02", <<"SP01">>),
             sop |-> Pick("sp2.sop", QuarterTurnText, MatrixVariants),
             singlescans |-> <<"151120_155528">>,
             scanposimages |-> <<
                [name |-> "Image001",
                 mountcalib_ref |-> MountRef("sp2.image1.mountcalib_ref", "Mount1"),
                 camcalib_ref |-> CamRef("sp2.image1.camcalib_ref", "Cam2"),
                 cop |-> Pick("sp2.image1.cop", TranslationText, MatrixVariants),
                 csv |-> Pick("sp2.image1.csv", Some(GoodCsv), <<Some(CorruptCsv)>>)]>>]>>]

Documents == {Document(D) : D \in ReplacementSets}

\* the matrix texts read one at a time
TransformTexts == {TranslationText, QuarterTurnText, SingularText, ShortText}

\* the corners of a cube
CornerPoints == {Point(x, y, z) : x \in {-Scale, Scale}, y \in {-Scale, Scale}, z \in {-Scale, Scale}}

---------------------------------------------------------------------------
(* Scan positions with images of every kind.                               *)

\* a matrix without an inverse: its first two rows are equal
Collapsing ==
    Matrix4(<<Scale, 0, 0, 3 * Scale>>, <<Scale, 0, 0, 3 * Scale>>,
            <<0, 0, Scale, 0>>, <<0, 0, 0, Scale>>)

\* moved one unit along x
Shift ==
    Matrix4(<<Scale, 0, 0, Scale>>, <<0, Scale, 0, 0>>, <<0, 0, Scale, 0>>, <<0, 0, 0, Scale>>)

\* what an image of a loaded scan position can be: with data or without,
\* with a cop that has an inverse or not, with a calibration of version 2 or 1
ImageKinds ==
    {[cop |-> cop, version |-> version, image_data |-> image_data] :
        cop \in {Identity, Shift, Collapsing}, version \in {1, 2},
        image_data \in {read_image_data(csv).val : csv \in {None, Some(GoodCsv)}}}

ColorImage(name, kind) ==
    [cop |-> kind.cop,
     camera_calibration |-> [name |-> "Cam1", version |-> kind.version,
                             internal_opencv |-> Internal(PinholeCalibration)],
     image_data |-> kind.image_data,
     mount_calibration |-> [name |-> "Mount1", matrix |-> Identity],
     name |-> name,
     scan_position_name |-> "SP01",
     sop |-> Identity]

\* the kinds of the two images of the scan position
ColorKinds ==
    {kinds \in ImageKinds \X ImageKinds :
        /\ kinds[1].version = 2 \/ kinds[2].version = 2
        /\ kinds[1].cop = Identity \/ kinds[2].cop = Identity}

ColorScanPositions ==
    {[name |-> "SP01",
      images |-> ("Image001" :> ColorImage("Image001", kinds[1]))
                 @@ ("Image002" :> ColorImage("Image002", kinds[2])),
      scans |-> << >>] : kinds \in ColorKinds}

\* the orders a map can hand its keys out in
Orders(keys) ==
    {order \in [1..Cardinality(keys) -> keys] : {order[i] : i \in DOMAIN order} = keys}

---------------------------------------------------------------------------
(* The camera of data/camera.cam, its values to twelve places, and points  *)
(* in front of it at whole coordinates.                                    *)

CameraCam ==
    [fx |-> Dec(883, 5230, 6678, 2611), fy |-> Dec(884, 2400, 3410, 5973),
     cx |-> Dec(529, 9796, 6053, 6012), cy |-> Dec(400, 7770, 6506, 1184),
     k1 |-> DNeg(Dec(0, 4164, 9501, 1734)), k2 |-> Dec(0, 1101, 3401, 4385),
     k3 |-> DNeg(Dec(0, 1163, 1512, 9162)), k4 |-> Dec(0, 141, 6112, 1599),
     p1 |-> Dec(0, 7, 2627, 186), p2 |-> DNeg(Dec(0, 1, 5152, 987))]

CameraPoints ==
    {<<DInt(x), DInt(y), DInt(z)>> : x \in 0..4, y \in 0..4, z \in 0..4}

---------------------------------------------------------------------------
(* The transforms an image is given and the points it converts.            *)

ImageTransforms == {QuarterTurn, Doubling, Tripling, Collapsing}

ImagePoints == CornerPoints \cup {Point(Scale, 2 * Scale, 3 * Scale)}

---------------------------------------------------------------------------
(* The lines of Infratec csv files: the two markers, a line without text,  *)
(* header lines the reader keeps, parses in vain, passes over or rejects,  *)
(* and every file of up to MaxLines of them.                               *)

MaxLines == 3

\* the height of the image
HeightLine ==
    <<"I", "m", "a", "g", "e", "H", "e", "i", "g", "h", "t", "=", "7", "6",
      "8">>

\* the width of the image
WidthLine ==
    <<"I", "m", "a", "g", "e", "W", "i", "d", "t", "h", "=", "1", "0", "2",
      "4">>

\* the version of the format
VersionLine ==
    <<"V", "e", "r", "s", "i", "o", "n", "=", "3">>

\* a version over what u8 holds
LargeVersionLine ==
    <<"V", "e", "r", "s", "i", "o", "n", "=", "3", "0", "0">>

\* a setting the reader has no field for
UnitLine ==
    <<"U", "n", "i", "t", "=", "C">>

\* a width that is no number
WidthInTextLine ==
    <<"I", "m", "a", "g", "e", "W", "i", "d", "t", "h", "=", "w", "i", "d",
      "e">>

\* a line with two values
TwiceLine ==
    <<"Z", "o", "o", "m", "=", "1", "=", "2">>

HeaderLines ==
    {SettingsLine, DataLine, <<>>, HeightLine, WidthLine, VersionLine, LargeVersionLine,
     UnitLine, WidthInTextLine, TwiceLine}

HeaderFiles == UNION {[1..n -> HeaderLines] : n \in 0..MaxLines}

---------------------------------------------------------------------------
(* The colorizer and the camera calibration it holds, queried.  The caller *)
(* is single-threaded: it makes one call, takes the result (Return), and   *)
(* makes the next.                                                         *)

Idle == [op |-> "idle"]

Unit == Value(TRUE)

Init ==
    /\ colorizer \in Colorizers
    /\ project = None
    /\ call = Idle
    /\ ret = Unit

CallIsValidPixel(u, v) ==
    /\ call = Idle
    /\ call' = [op |-> "is_valid_pixel", u |-> u, v |-> v]
    /\ ret' = Value(is_valid_pixel(colorizer.camera_calibration, u, v))
    /\ UNCHANGED <<colorizer, project>>

CallCmcsToIcs(point) ==
    /\ call = Idle
    /\ call' = [op |-> "cmcs_to_ics", point |-> point]
    /\ ret' = Value(cmcs_to_ics(colorizer.camera_calibration, point))
    /\ UNCHANGED <<colorizer, project>>

CallSocsToCmcs(point) ==
    /\ call = Idle
    /\ call' = [op |-> "socs_to_cmcs", point |-> point]
    /\ ret' = IF InversePanics(colorizer.image.cop) THEN Panic
              ELSE Value(socs_to_cmcs(colorizer, point))
    /\ UNCHANGED <<colorizer, project>>

CallPixel(point) ==
    /\ call = Idle
    /\ call' = [op |-> "pixel", point |-> point]
    /\ ret' = IF InversePanics(colorizer.image.cop) THEN Panic
              ELSE Value(pixel(colorizer, point))
    /\ UNCHANGED <<colorizer, project>>

CallColorize_consuming(point) ==
    /\ call = Idle
    /\ call' = [op |-> "colorize", point |-> point]
    /\ ret' = IF InversePanics(colorizer.image.cop) THEN Panic
              ELSE colorize(colorizer, point)
    /\ colorizer' = [colorizer EXCEPT !.irb.width = 0]
    /\ UNCHANGED project

CallColorize(point) ==
    /\ call = Idle
    /\ call' = [op |-> "colorize", point |-> point]
    /\ ret' = IF InversePanics(colorizer.image.cop) THEN Panic
              ELSE colorize(colorizer, point)
    /\ UNCHANGED <<colorizer, project>>

Return ==
    /\ call # Idle
    /\ call' = Idle
    /\ ret' = Unit
    /\ UNCHANGED <<colorizer, project>>

Next ==
    \/ \E u \in PixelCoords, v \in PixelCoords : CallIsValidPixel(u, v)
    \/ \E point \in Points : CallCmcsToIcs(point)
    \/ \E point \in Points : CallSocsToCmcs(point)
    \/ \E point \in Points : CallPixel(point)
    \/ \E point \in Points : CallColorize(point)
    \/ Return

Spec == Init /\ [][Next]_vars

---------------------------------------------------------------------------
(* The matrix parsers, called on matrix texts.                             *)

InitMatrix ==
    /\ colorizer = None
    /\ project = None
    /\ call = Idle
    /\ ret = Unit

CallProjectiveFromStr(s) ==
    /\ call = Idle
    /\ call' = [op |-> "projective_from_str", s |-> s]
    /\ ret' = Value(projective_from_str(s))
    /\ UNCHANGED <<colorizer, project>>

CallMatrixFromStr(s) ==
    /\ call = Idle
    /\ call' = [op |-> "matrix_from_str", s |-> s]
    /\ ret' = Value(matrix_from_str(s))
    /\ UNCHANGED <<colorizer, project>>

NextMatrix ==
    \/ \E s \in Texts : CallProjectiveFromStr(s)
    \/ \E s \in Texts : CallMatrixFromStr(s)
    \/ Return

SpecMatrix == InitMatrix /\ [][NextMatrix]_vars

---------------------------------------------------------------------------
(* A project loaded and its images queried; transforms read one at a time  *)
(* and points converted with them.  The caller loads its project once.     *)

InitLoad ==
    /\ colorizer = None
    /\ project = None
    /\ call = Idle
    /\ ret = Unit

CallFromPath(xml) ==
    /\ call = Idle
    /\ project = None
    /\ call' = [op |-> "from_path", xml |-> xml]
    /\ \E result \in {ProjectFromPath(xml)} :
          /\ ret' = Value(result)
          /\ project' = IF result.ok THEN Some(result.val) ELSE None
    /\ UNCHANGED colorizer

\* Project::image, then Image::color
CallImageColor(scan_position, image, point) ==
    /\ call = Idle
    /\ project.some
    /\ scan_position \in DOMAIN project.val.scan_positions
    /\ image \in DOMAIN project.val.scan_positions[scan_position].images
    /\ call' = [op |-> "color", scan_position |-> scan_position, image |-> image,
                point |-> point]
    /\ ret' = ImageColor(project.val.scan_positions[scan_position].images[image], point)
    /\ UNCHANGED <<colorizer, project>>

\* Rsp::projective3
CallProjective3(s) ==
    /\ call = Idle
    /\ call' = [op |-> "projective3", s |-> s]
    /\ ret' = Value(projective_from_str(s))
    /\ UNCHANGED <<colorizer, project>>

\* the transform just read
Read == call.op = "projective3" /\ ret.val.ok

CallGlcsToPrcs(point) ==
    /\ Read
    /\ call' = [op |-> "Glcs::to_prcs", point |-> point, pop |-> ret.val.val]
    /\ ret' = Glcs_to_prcs(point, ret.val.val)
    /\ UNCHANGED <<colorizer, project>>

CallPrcsToSocs(point) ==
    /\ Read
    /\ call' = [op |-> "Prcs::to_socs", point |-> point, sop |-> ret.val.val]
    /\ ret' = Prcs_to_socs(point, ret.val.val)
    /\ UNCHANGED <<colorizer, project>>

CallSocsToCmcs_point(point, mount_calibration) ==
    /\ Read
    /\ call' = [op |-> "Socs::to_cmcs", point |-> point, cop |-> ret.val.val,
                mount_calibration |-> mount_calibration]
    /\ ret' = Socs_to_cmcs(point, ret.val.val, mount_calibration)
    /\ UNCHANGED <<colorizer, project>>

CallCmcsToSocs(point, cop) ==
    /\ Read
    /\ call' = [op |-> "Cmcs::to_socs", point |-> point, cop |-> cop,
                mount_calibration |-> ret.val.val]
    /\ ret' = Cmcs_to_socs(point, cop, ret.val.val)
    /\ UNCHANGED <<colorizer, project>>

NextLoad ==
    \/ \E xml \in Documents : CallFromPath(xml)
    \/ \E scan_position \in {"SP01", "SP02"}, image \in {"Image001", "Image002"},
          point \in PrcsPoints : CallImageColor(scan_position, image, point)
    \/ \E s \in TransformTexts : CallProjective3(s)
    \/ \E point \in CornerPoints : CallGlcsToPrcs(point)
    \/ \E point \in CornerPoints : CallPrcsToSocs(point)
    \/ \E point \in CornerPoints : CallSocsToCmcs_point(point, QuarterTurn)
    \/ \E point \in CornerPoints : CallCmcsToSocs(point, QuarterTurn)
    \/ Return

SpecLoad == InitLoad /\ [][NextLoad]_vars

---------------------------------------------------------------------------
(* Points converted between the coordinate reference systems, one          *)
(* conversion at a time or there and back with the same transforms, and    *)
(* the colorizer's own conversion.  A conversion's record keeps the point   *)
(* a round trip started from.                                               *)

ConvertGlcsToPrcs(point, pop) ==
    /\ call = Idle
    /\ call' = [op |-> "Glcs::to_prcs", point |-> point, pop |-> pop, origin |-> None]
    /\ ret' = Glcs_to_prcs(point, pop)
    /\ UNCHANGED <<colorizer, project>>

ConvertPrcsToGlcs(point, pop) ==
    /\ call = Idle
    /\ call' = [op |-> "Prcs::to_glcs", point |-> point, pop |-> pop, origin |-> None]
    /\ ret' = Prcs_to_glcs(point, pop)
    /\ UNCHANGED <<colorizer, project>>

ConvertPrcsToSocs(point, sop) ==
    /\ call = Idle
    /\ call' = [op |-> "Prcs::to_socs", point |-> point, sop |-> sop, origin |-> None]
    /\ ret' = Prcs_to_socs(point, sop)
    /\ UNCHANGED <<colorizer, project>>

ConvertSocsToPrcs(point, sop) ==
    /\ call = Idle
    /\ call' = [op |-> "Socs::to_prcs", point |-> point, sop |-> sop, origin |-> None]
    /\ ret' = Socs_to_prcs(point, sop)
    /\ UNCHANGED <<colorizer, project>>

ConvertSocsToCmcs(point, cop, mount_calibration) ==
    /\ call = Idle
    /\ call' = [op |-> "Socs::to_cmcs", point |-> point, cop |-> cop,
                mount_calibration |-> mount_calibration, origin |-> None]
    /\ ret' = Socs_to_cmcs(point, cop, mount_calibration)
    /\ UNCHANGED <<colorizer, project>>

ConvertCmcsToSocs(point, cop, mount_calibration) ==
    /\ call = Idle
    /\ call' = [op |-> "Cmcs::to_socs", point |-> point, cop |-> cop,
                mount_calibration |-> mount_calibration, origin |-> None]
    /\ ret' = Cmcs_to_socs(point, cop, mount_calibration)
    /\ UNCHANGED <<colorizer, project>>

\* the conversion in call has returned a point and was no way back itself
Converted(op) == call.op = op /\ ~ret.panic /\ ~call.origin.some

\* Prcs -> Glcs done, now Glcs -> Prcs with the same pop
BackToPrcs ==
    /\ Converted("Prcs::to_glcs")
    /\ call' = [op |-> "Glcs::to_prcs", point |-> ret.val, pop |-> call.pop,
                origin |-> Some(call.point)]
    /\ ret' = Glcs_to_prcs(ret.val, call.pop)
    /\ UNCHANGED <<colorizer, project>>

\* Socs -> Prcs done, now Prcs -> Socs with the same sop
BackToSocs ==
    /\ Converted("Socs::to_prcs")
    /\ call' = [op |-> "Prcs::to_socs", point |-> ret.val, sop |-> call.sop,
                origin |-> Some(call.point)]
    /\ ret' = Prcs_to_socs(ret.val, call.sop)
    /\ UNCHANGED <<colorizer, project>>

\* Socs -> Cmcs done, now Cmcs -> Socs with the same cop and mount calibration
BackFromCmcs ==
    /\ Converted("Socs::to_cmcs")
    /\ call' = [op |-> "Cmcs::to_socs", point |-> ret.val, cop |-> call.cop,
                mount_calibration |-> call.mount_calibration,
                origin |-> Some(call.point)]
    /\ ret' = Cmcs_to_socs(ret.val, call.cop, call.mount_calibration)
    /\ UNCHANGED <<colorizer, project>>

NextPoint ==
    \/ \E point \in Points, pop \in Transforms : ConvertGlcsToPrcs(point, pop)
    \/ \E point \in Points, pop \in Transforms : ConvertPrcsToGlcs(point, pop)
    \/ \E point \in Points, sop \in Transforms : ConvertPrcsToSocs(point, sop)
    \/ \E point \in Points, sop \in Transforms : ConvertSocsToPrcs(point, sop)
    \/ \E point \in Points, cop \in Transforms, mount_calibration \in Mounts :
          ConvertSocsToCmcs(point, cop, mount_calibration)
    \/ \E point \in Points, cop \in Transforms, mount_calibration \in Mounts :
          ConvertCmcsToSocs(point, cop, mount_calibration)
    \/ BackToPrcs
    \/ BackToSocs
    \/ BackFromCmcs
    \/ \E point \in Points : CallSocsToCmcs(point)
    \/ Return

\* the colorizers of one camera and one mount calibration
PointColorizers ==
    {c \in Colorizers :
        /\ c.camera_calibration = PinholeCalibration
        /\ c.mount_calibration.matrix = QuarterTurn
        /\ c.image.cop # Identity}

InitPoint ==
    /\ colorizer \in PointColorizers
    /\ project = None
    /\ call = Idle
    /\ ret = Unit

SpecPoint == InitPoint /\ [][NextPoint]_vars

---------------------------------------------------------------------------
(* A project asked for the scan position and the image of a path.          *)

InitPath ==
    /\ colorizer = None
    /\ project \in {Some(p) : p \in PathProjects}
    /\ call = Idle
    /\ ret = Unit

CallScanPositionFromPath(path) ==
    /\ call = Idle
    /\ call' = [op |-> "scan_position_from_path", path |-> path]
    /\ ret' = Value(scan_position_from_path(project.val, path))
    /\ UNCHANGED <<colorizer, project>>

CallImageFromPath(path) ==
    /\ call = Idle
    /\ call' = [op |-> "Project::image_from_path", path |-> path]
    /\ ret' = Value(project_image_from_path(project.val, path))
    /\ UNCHANGED <<colorizer, project>>

CallScanPositionImageFromPath(name, path) ==
    /\ call = Idle
    /\ name \in DOMAIN project.val.scan_positions
    /\ call' = [op |-> "ScanPosition::image_from_path", name |-> name, path |-> path]
    /\ ret' = Value(image_from_path(project.val.scan_positions[name], path))
    /\ UNCHANGED <<colorizer, project>>

NextPath ==
    \/ \E path \in Paths : CallScanPositionFromPath(path)
    \/ \E path \in Paths : CallImageFromPath(path)
    \/ \E name \in {"SP01", "SP02"}, path \in Paths : CallScanPositionImageFromPath(name, path)
    \/ Return

SpecPath == InitPath /\ [][NextPath]_vars

---------------------------------------------------------------------------
(* An element asked for its noderef.                                       *)

InitNoderef ==
    /\ colorizer = None
    /\ project = None
    /\ call = Idle
    /\ ret = Unit

CallNoderef(element) ==
    /\ call = Idle
    /\ call' = [op |-> "noderef", element |-> element]
    /\ ret' = Value(noderef(element))
    /\ UNCHANGED <<colorizer, project>>

CallGetNoderef(element) ==
    /\ call = Idle
    /\ call' = [op |-> "get_noderef", element |-> element]
    /\ ret' = Value(descendant_noderef(element, element.name))
    /\ UNCHANGED <<colorizer, project>>

NextNoderef ==
    \/ \E element \in RefElements : CallNoderef(element)
    \/ \E element \in RefElements : CallGetNoderef(element)
    \/ Return

SpecNoderef == InitNoderef /\ [][NextNoderef]_vars

---------------------------------------------------------------------------
(* A project file asked for its camera.                                    *)

InitRsp ==
    /\ colorizer = None
    /\ project \in {Some(rsp) : rsp \in Rsps}
    /\ call = Idle
    /\ ret = Unit

CallCamera(xpath) ==
    /\ call = Idle
    /\ call' = [op |-> "camera", xpath |-> xpath]
    /\ ret' = Value(camera(project.val, xpath))
    /\ UNCHANGED <<colorizer, project>>

NextRsp ==
    \/ \E xpath \in XPaths : CallCamera(xpath)
    \/ Return

SpecRsp == InitRsp /\ [][NextRsp]_vars

---------------------------------------------------------------------------
(* A project of the event reader built up and asked for scan positions.    *)

InitProject ==
    /\ colorizer = None
    /\ project = Some(Project_new)
    /\ call = Idle
    /\ ret = Unit

CallSetPop(pop) ==
    /\ call = Idle
    /\ call' = [op |-> "set_pop", pop |-> pop]
    /\ project' = Some(set_pop(project.val, pop))
    /\ ret' = Unit
    /\ UNCHANGED colorizer

CallAddScanPosition(scan_position) ==
    /\ call = Idle
    /\ call' = [op |-> "add_scan_position", scan_position |-> scan_position]
    /\ project' = Some(add_scan_position(project.val, scan_position))
    /\ ret' = Unit
    /\ UNCHANGED colorizer

CallScanPosition(name) ==
    /\ call = Idle
    /\ call' = [op |-> "scan_position", name |-> name]
    /\ \E result \in project_scan_position(project.val, name) : ret' = Value(result)
    /\ UNCHANGED <<colorizer, project>>

NextProject ==
    \/ \E pop \in Pops : CallSetPop(pop)
    \/ \E scan_position \in GivenScanPositions : CallAddScanPosition(scan_position)
    \/ \E name \in AskedNames : CallScanPosition(name)
    \/ Return

SpecProject == InitProject /\ [][NextProject]_vars

---------------------------------------------------------------------------
(* The path of a project file asked for.                                   *)

InitRspPath ==
    /\ colorizer = None
    /\ project = None
    /\ call = Idle
    /\ ret = Unit

CallRspPath(path) ==
    /\ call = Idle
    /\ call' = [op |-> "rsp_path", path |-> path]
    /\ ret' = Value(rsp_path(path))
    /\ UNCHANGED <<colorizer, project>>

NextRspPath ==
    \/ \E path \in RspPaths : CallRspPath(path)
    \/ Return

SpecRspPath == InitRspPath /\ [][NextRspPath]_vars

---------------------------------------------------------------------------
(* The data of an image asked for the value at a pixel.                    *)

InitImageData ==
    /\ colorizer = None
    /\ project = None
    /\ call = Idle
    /\ ret = Unit

CallGet(image, uv) ==
    /\ call = Idle
    /\ call' = [op |-> "get", image |-> image, uv |-> uv]
    /\ ret' = Value(InfratecGet(image, uv))
    /\ UNCHANGED <<colorizer, project>>

NextImageData ==
    \/ \E image \in InfratecImages, u \in PixelCoords, v \in PixelCoords :
            CallGet(image, Pixel(u, v))
    \/ \E image \in InfratecImages : CallGet(image, NonFinite)
    \/ Return

SpecImageData == InitImageData /\ [][NextImageData]_vars

---------------------------------------------------------------------------
(* A scan position asked for the colour of a point.                        *)

InitColor ==
    /\ colorizer = None
    /\ project \in {Some([scan_positions |-> ("SP01" :> scan_position)]) :
                        scan_position \in ColorScanPositions}
    /\ call = Idle
    /\ ret = Unit

CallScanPositionColor(order, point) ==
    /\ call = Idle
    /\ call' = [op |-> "ScanPosition::color", order |-> order, point |-> point]
    /\ ret' = ScanPositionColor(project.val.scan_positions["SP01"], order, point)
    /\ UNCHANGED <<colorizer, project>>

NextColor ==
    \/ \E order \in Orders({"Image001", "Image002"}), point \in PrcsPoints :
            CallScanPositionColor(order, point)
    \/ Return

SpecColor == InitColor /\ [][NextColor]_vars

---------------------------------------------------------------------------
(* The camera of data/camera.cam asked for the pixel of a point.           *)

InitCamera ==
    /\ colorizer = None
    /\ project = None
    /\ call = Idle
    /\ ret = Unit

CallCameraCmcsToIcs(self, point) ==
    /\ call = Idle
    /\ call' = [op |-> "Camera::cmcs_to_ics", camera |-> self, point |-> point]
    /\ ret' = Value(Camera_cmcs_to_ics(self, point))
    /\ UNCHANGED <<colorizer, project>>

NextCamera ==
    \/ \E point \in CameraPoints : CallCameraCmcsToIcs(CameraCam, point)
    \/ Return

SpecCamera == InitCamera /\ [][NextCamera]_vars

---------------------------------------------------------------------------
(* An image of the first revision given its transforms and asked to        *)
(* convert points.  The caller keeps the image where it keeps what it      *)
(* works on, in project.                                                   *)

InitImage ==
    /\ colorizer = None
    /\ project = Some(Image_default)
    /\ call = Idle
    /\ ret = Unit

CallSetMountingMatrix(mounting_matrix) ==
    /\ call = Idle
    /\ call' = [op |-> "Image::set_mounting_matrix", mounting_matrix |-> mounting_matrix]
    /\ project' = Some(Image_set_mounting_matrix(project.val, mounting_matrix))
    /\ ret' = Unit
    /\ UNCHANGED colorizer

CallSetCop(cop) ==
    /\ call = Idle
    /\ call' = [op |-> "Image::set_cop", cop |-> cop]
    /\ project' = Some(Image_set_cop(project.val, cop))
    /\ ret' = Unit
    /\ UNCHANGED colorizer

CallSetSop(sop) ==
    /\ call = Idle
    /\ call' = [op |-> "Image::set_sop", sop |-> sop]
    /\ project' = Some(Image_set_sop(project.val, sop))
    /\ ret' = Unit
    /\ UNCHANGED colorizer

CallPrcsToCmcs(point) ==
    /\ call = Idle
    /\ call' = [op |-> "Image::prcs_to_cmcs", point |-> point]
    /\ ret' = Image_prcs_to_cmcs(project.val, point)
    /\ UNCHANGED <<colorizer, project>>

NextImage ==
    \/ \E mounting_matrix \in ImageTransforms : CallSetMountingMatrix(mounting_matrix)
    \/ \E cop \in ImageTransforms : CallSetCop(cop)
    \/ \E sop \in ImageTransforms : CallSetSop(sop)
    \/ \E point \in ImagePoints : CallPrcsToCmcs(point)
    \/ Return

SpecImage == InitImage /\ [][NextImage]_vars

---------------------------------------------------------------------------
(* A project loaded from a project file, or built up by its caller one     *)
(* scan position at a time.                                                *)

\* the project was built with Project::new: it has a pop
Built == project.some /\ "pop" \in DOMAIN project.val

InitStored ==
    /\ colorizer = None
    /\ project \in {None, Some(Project_new)}
    /\ call = Idle
    /\ ret = Unit

NextStored ==
    \/ \E xml \in Documents : CallFromPath(xml)
    \/ \E pop \in Pops : Built /\ CallSetPop(pop)
    \/ \E scan_position \in GivenScanPositions : Built /\ CallAddScanPosition(scan_position)
    \/ Return

SpecStored == InitStored /\ [][NextStored]_vars

---------------------------------------------------------------------------
(* The header of an Infratec csv file read, a line at a step.  The call    *)
(* holds the lines, how many of them were read, where the function is and, *)
(* in the loop, the header so far.                                         *)

InitHeader ==
    /\ colorizer = None
    /\ project = None
    /\ call = Idle
    /\ ret = Unit

CallHeaderNew(lines) ==
    /\ call = Idle
    /\ call' = [op |-> "Header::new", lines |-> lines, read |-> 0, at |-> "first_line"]
    /\ ret' = Unit
    /\ UNCHANGED <<colorizer, project>>

\* the function goes on into the loop, or returns; a line was read unless
\* there was none left
HeaderStep(step) ==
    /\ call' = IF step.returns
               THEN [op |-> "Header::new", lines |-> call.lines,
                     read |-> IF call.read < Len(call.lines) THEN call.read + 1
                              ELSE call.read,
                     at |-> "returned"]
               ELSE [op |-> "Header::new", lines |-> call.lines, read |-> call.read + 1,
                     at |-> "loop", header |-> step.header]
    /\ ret' = IF step.returns THEN Value(step.result) ELSE ret
    /\ UNCHANGED <<colorizer, project>>

ReadFirstLine ==
    /\ call.op = "Header::new"
    /\ call.at = "first_line"
    /\ HeaderStep(FirstLine(next_line(call.lines, call.read)))

ReadHeaderLine ==
    /\ call.op = "Header::new"
    /\ call.at = "loop"
    /\ HeaderStep(HeaderLine(call.header, next_line(call.lines, call.read)))

HeaderReturned == call.op = "Header::new" /\ call.at = "returned"

NextHeader ==
    \/ \E lines \in HeaderFiles : CallHeaderNew(lines)
    \/ ReadFirstLine
    \/ ReadHeaderLine
    \/ HeaderReturned /\ Return

\* the function, once called, runs on: nothing but its own steps can stop it
SpecHeader ==
    /\ InitHeader
    /\ [][NextHeader]_vars
    /\ WF_vars(ReadFirstLine)
    /\ WF_vars(ReadHeaderLine)

---------------------------------------------------------------------------
(* Claims about the camera calibration and the colorizer, under Spec.      *)

Cal == colorizer.camera_calibration

\* C1: cmcs_to_ics returns None for every camera-frame point with z <= 0,
\* z = 0 included, whatever x, y and the calibration are.
C1_BehindCameraIsNone ==
    (call.op = "cmcs_to_ics" /\ call.point[3] <= 0) => ret = Value(None)

\* a point on the plane z = 0 was projected
C1_Witness ==
    /\ call.op = "cmcs_to_ics"
    /\ call.point = Point(0, 0, 0)
    /\ ret = Value(None)

\* C2: for a point with z > 0 the filter compares y/z with the horizontal
\* limits and x/z with the vertical limits, both ends inclusive: a tangent
\* equal to a limit passes the filter (only the pixel check can still
\* reject the point), a tangent beyond a limit gives None.
C2_AngleExtentsInclusive ==
    (call.op = "cmcs_to_ics" /\ call.point[3] > 0) =>
        LET horz == FDiv(call.point[2], call.point[3])
            vert == FDiv(call.point[1], call.point[3])
            within == /\ Cal.tan_min_horz <= horz /\ horz <= Cal.tan_max_horz
                      /\ Cal.tan_min_vert <= vert /\ vert <= Cal.tan_max_vert
            uv == Distort(Cal, call.point)
        IN  /\ ~within => ret = Value(None)
            /\ (within /\ 0 <= uv[1] /\ uv[1] < Cal.width * Scale
                       /\ 0 <= uv[2] /\ uv[2] < Cal.height * Scale)
                  => ret = Value(Some(uv))

\* a point whose horizontal tangent is exactly the upper limit was projected
\* to a pixel
C2_Witness ==
    /\ call.op = "cmcs_to_ics"
    /\ call.point[3] > 0
    /\ FDiv(call.point[2], call.point[3]) = Cal.tan_max_horz
    /\ ret.val.some

\* C3: is_valid_pixel(u, v) is true exactly when 0 <= u < width and
\* 0 <= v < height.
C3_ValidPixelHalfOpen ==
    call.op = "is_valid_pixel" =>
        ret = Value(/\ call.u \in 0..(Cal.width * Scale - 1)
                    /\ call.v \in 0..(Cal.height * Scale - 1))

\* u = width was asked about and found invalid
C3_Witness ==
    /\ call.op = "is_valid_pixel"
    /\ call.u = Cal.width * Scale
    /\ call.v = 0
    /\ ret = Value(FALSE)

\* C4: every pixel cmcs_to_ics or Colorizer::pixel returns lies in
\* [0, width) x [0, height), and colorize never fails its assertions.
C4_PixelInBounds ==
    /\ (call.op \in {"cmcs_to_ics", "pixel"} /\ ~ret.panic /\ ret.val.some) =>
          /\ 0 <= ret.val.val[1] /\ ret.val.val[1] < Cal.width * Scale
          /\ 0 <= ret.val.val[2] /\ ret.val.val[2] < Cal.height * Scale
    /\ call.op = "colorize" => ~ret.panic

\* colorize sampled the image for a point that projects to a pixel
C4_Witness ==
    /\ call.op = "colorize"
    /\ ~ret.panic
    /\ ret.val.some

---------------------------------------------------------------------------
(* Claims about the matrix parsers, under SpecMatrix.                      *)

Parsing == call.op \in {"projective_from_str", "matrix_from_str"}

\* the whitespace-separated tokens of a text start where a character that
\* is no whitespace follows the start of the text or a whitespace
TokenStarts(s) ==
    {i \in 1..Len(s) : s[i] \notin Whitespace /\ (i = 1 \/ s[i - 1] \in Whitespace)}

TokenCount(s) == Cardinality(TokenStarts(s))

\* C9: both parsers return a matrix only for a text of exactly 16
\* whitespace-separated tokens; a text of 0 to 15 or of 17 and more tokens
\* gets an error.
C9_SixteenTokensOnly ==
    Parsing => (ret.val.ok => TokenCount(call.s) = 16)

\* a text of 17 numeric tokens was refused for its length
C9_Witness ==
    /\ call.op = "projective_from_str"
    /\ TokenCount(call.s) = 17
    /\ ~ret.val.ok
    /\ ret.val.err.type = "ParseMatrix4"

HasBadToken(s) == \E k \in 1..Len(split_whitespace(s)) : ~IsF64Literal(split_whitespace(s)[k])

---------------------------------------------------------------------------
(* Claims about the project load, the image projection and the point       *)
(* conversions, under SpecLoad.                                            *)

Loading == call.op = "from_path"

Converting == call.op \in {"Glcs::to_prcs", "Prcs::to_socs", "Socs::to_cmcs", "Cmcs::to_socs"}

\* the matrix has no inverse
Singular(m) == Determinant(m) = 0

\* the text holds sixteen numbers
Numeric(s) == TokenCount(s) = 16 /\ ~HasBadToken(s)

\* the matrix a text of sixteen numbers spells, row by row
MatrixOf(s) == MatrixNew(ParseEntries(s).val)

ChildrenOf(children) == {children[i] : i \in 1..Len(children)}

NamesOf(children) == {child.name : child \in ChildrenOf(children)}

ImagesOf(xml) == UNION {ChildrenOf(sp.scanposimages) : sp \in ChildrenOf(xml.scanpositions)}

\* the calibration name a noderef ends in
Referenced(segments) == segments[Len(segments)]

\* the errors for the references of xml that name no calibration
Dangling(xml) ==
    {[type |-> "MissingElement", element |-> "mount_calibration",
      name |-> Referenced(image.mountcalib_ref)] :
        image \in {i \in ImagesOf(xml) :
                      Referenced(i.mountcalib_ref) \notin NamesOf(xml.mountcalibs)}}
    \cup
    {[type |-> "MissingElement", element |-> "camera_calibration",
      name |-> Referenced(image.camcalib_ref)] :
        image \in {i \in ImagesOf(xml) :
                      Referenced(i.camcalib_ref) \notin NamesOf(xml.camcalibs)}}

MatrixTextsOf(xml) ==
    {mount.matrix : mount \in ChildrenOf(xml.mountcalibs)}
    \cup {sp.sop : sp \in ChildrenOf(xml.scanpositions)}
    \cup {image.cop : image \in ImagesOf(xml)}

\* the errors for the matrix texts of xml that do not hold sixteen numbers
BadMatrices(xml) ==
    {[type |-> "ParseMatrix", text |-> t] : t \in {u \in MatrixTextsOf(xml) : ~Numeric(u)}}

\* the errors for the camera calibrations of xml that cannot be read
BadCalibrations(xml) ==
    {[type |-> "UnsupportedCameraCalibration", name |-> c.element] :
        c \in {d \in ChildrenOf(xml.camcalibs) : d.element # "camcalib_opencv"}}
    \cup
    {[type |-> "ParseInt"] :
        c \in {d \in ChildrenOf(xml.camcalibs) :
                  d.element = "camcalib_opencv" /\ ~ParseU8(d.version).ok}}

\* the errors for the image files of xml that cannot be read
BadImages(xml) ==
    {[type |-> "ReadInfratec"] :
        image \in {i \in ImagesOf(xml) : i.csv.some /\ ~i.csv.val.readable}}

\* the errors of the parts of xml that fail to parse
Failures(xml) == Dangling(xml) \cup BadMatrices(xml) \cup BadCalibrations(xml) \cup BadImages(xml)

\* the image a colour is asked of
Asked == project.val.scan_positions[call.scan_position].images[call.image]

C6_DanglingReferenceFails ==
    (Loading /\ Dangling(call.xml) # {}) =>
        /\ ~ret.panic
        /\ ~ret.val.ok
        /\ project = None
        /\ Failures(call.xml) = Dangling(call.xml) => ret.val.err \in Dangling(call.xml)

\* a load failed on a reference to a camera calibration that is not there
C6_Witness ==
    /\ Loading
    /\ project = None
    /\ ret = Value(Err([type |-> "MissingElement", element |-> "camera_calibration",
                        name |-> "NoCam"]))

\* C7: when any part of the project file fails to parse, Project::from_path
\* returns the error of a part that fails, and no Project is left, whatever
\* parsed before the failure.
C7_LoadAllOrNothing ==
    (Loading /\ Failures(call.xml) # {}) =>
        /\ ~ret.panic
        /\ ~ret.val.ok
        /\ ret.val.err \in Failures(call.xml)
        /\ project = None

\* a load failed on the image file of the last image of the project file,
\* after everything before it had parsed
C7_Witness ==
    /\ Loading
    /\ Failures(call.xml) = {[type |-> "ReadInfratec"]}
    /\ ~call.xml.scanpositions[2].scanposimages[1].csv.val.readable
    /\ ret = Value(Err([type |-> "ReadInfratec"]))
    /\ project = None

\* the camera calibrations of xml that are not OpenCV calibrations of version 2
Unsupported(xml) ==
    {c \in ChildrenOf(xml.camcalibs) :
        \/ c.element # "camcalib_opencv"
        \/ ParseU8(c.version).ok /\ ParseU8(c.version).val # 2}

\* C8, as stated: a project file with a camera calibration that is not an
\* OpenCV calibration of version 2, and nothing else wrong, is refused at
\* load with an unsupported error, and no Project is left.
C8_Original ==
    (Loading /\ Unsupported(call.xml) # {} /\ Failures(call.xml) \subseteq BadCalibrations(call.xml)) =>
        /\ ~ret.val.ok
        /\ ret.val.err.type \in {"UnsupportedCameraCalibration", "UnsupportedOpenCvVersion"}
        /\ project = None

---------------------------------------------------------------------------
(* Claims about the layout of the parsed matrix, under SpecMatrix.         *)

\* the value of token k of s, counted from 0
TokenValue(s, k) == F64Value(split_whitespace(s)[k + 1])

\* C11: the 16 tokens are read row by row: token k, counted from 0, is the
\* entry in row k div 4 and column k mod 4 of the matrix returned, so that
\* tokens 3, 7 and 11 are the translation column.
C11_RowMajor ==
    (Parsing /\ ret.val.ok) =>
        \A k \in 0..15 : ret.val.val[(k \div 4) + 1][(k % 4) + 1] = TokenValue(call.s, k)

\* a transform with a translation and an empty bottom row was read
C11_Witness ==
    /\ call.op = "projective_from_str"
    /\ ret.val.ok
    /\ TokenValue(call.s, 3) # 0
    /\ TokenValue(call.s, 12) = 0
    /\ ret.val.val[1][4] = TokenValue(call.s, 3)
    /\ ret.val.val[4][1] = 0

---------------------------------------------------------------------------
(* Claims about the point conversions, under SpecPoint.                    *)

\* the second conversion of a round trip has returned
RoundTrip ==
    /\ call.op \in {"Glcs::to_prcs", "Prcs::to_socs", "Cmcs::to_socs"}
    /\ call.origin.some
    /\ ~ret.panic

\* how far coordinate i of the point returned is from the point set out from
Deviation(i) == Abs(ret.val[i] - call.origin.val[i])

\* the sum of the magnitudes of a point's coordinates
Magnitude(p) == Abs(p[1]) + Abs(p[2]) + Abs(p[3])

\* epsilon = 1e-6 of the round trip test
Epsilon == F(1, 1000000)

Affine(m, p) ==
    <<FMul(m[1][1], p[1]) + FMul(m[1][2], p[2]) + FMul(m[1][3], p[3]) + m[1][4],
      FMul(m[2][1], p[1]) + FMul(m[2][2], p[2]) + FMul(m[2][3], p[3]) + m[2][4],
      FMul(m[3][1], p[1]) + FMul(m[3][2], p[2]) + FMul(m[3][3], p[3]) + m[3][4]>>

\* the points p and q are the same up to the rounding of one product more
Near(p, q) == \A i \in 1..3 : Abs(p[i] - q[i]) <= 1 + (Magnitude(q) \div Scale)

\* C13: every conversion applies its own product: Glcs -> Prcs the inverse
\* of pop, Prcs -> Glcs pop, Prcs -> Socs the inverse of sop, Socs -> Prcs
\* sop, Socs -> Cmcs the inverse of cop and then the mount calibration,
\* Cmcs -> Socs the inverse of the mount calibration and then cop; and
\* Colorizer::socs_to_cmcs returns what Socs -> Cmcs returns for the
\* colorizer's cop and mount calibration.
C13_ConversionProducts ==
    /\ call.op = "Glcs::to_prcs" => ret = Value(Affine(Inverse(call.pop), call.point))
    /\ call.op = "Prcs::to_glcs" => ret = Value(Affine(call.pop, call.point))
    /\ call.op = "Prcs::to_socs" => ret = Value(Affine(Inverse(call.sop), call.point))
    /\ call.op = "Socs::to_prcs" => ret = Value(Affine(call.sop, call.point))
    /\ call.op = "Socs::to_cmcs" =>
          /\ ~ret.panic
          /\ Near(ret.val, Affine(call.mount_calibration, Affine(Inverse(call.cop), call.point)))
    /\ call.op = "Cmcs::to_socs" =>
          /\ ~ret.panic
          /\ Near(ret.val, Affine(call.cop, Affine(Inverse(call.mount_calibration), call.point)))
    /\ call.op = "socs_to_cmcs" =>
          /\ ret = Socs_to_cmcs(call.point, colorizer.image.cop,
                                colorizer.mount_calibration.matrix)
          /\ Near(ret.val, Affine(colorizer.mount_calibration.matrix,
                                  Affine(Inverse(colorizer.image.cop), call.point)))

\* a point was converted Socs -> Cmcs with a cop and a mount calibration
\* whose order matters
C13_Witness ==
    /\ call.op = "Socs::to_cmcs"
    /\ call.cop = Doubling
    /\ call.mount_calibration = QuarterTurn
    /\ ~ret.panic
    /\ ~Near(ret.val, Affine(Inverse(call.cop), Affine(call.mount_calibration, call.point)))

---------------------------------------------------------------------------
(* Further claims about the camera calibration and the colorizer, under    *)
(* Spec.                                                                   *)

\* fx = fy = 1, cx = cy = 0 and no distortion
IsIdentityCalibration(c) ==
    /\ c.fx = Scale /\ c.fy = Scale /\ c.cx = 0 /\ c.cy = 0
    /\ c.k1 = 0 /\ c.k2 = 0 /\ c.k3 = 0 /\ c.k4 = 0 /\ c.p1 = 0 /\ c.p2 = 0

\* cmcs_to_ics asked of the identity calibration for a point in front of it
PinholeCase ==
    /\ call.op = "cmcs_to_ics"
    /\ IsIdentityCalibration(Cal)
    /\ call.point[3] > 0

\* x / z and y / z of the point asked for
PinholeDivision == <<FDiv(call.point[1], call.point[3]), FDiv(call.point[2], call.point[3])>>

\* C14 as stated: with the identity calibration the result for any point
\* with z > 0 is (x/z, y/z).
C14_Original ==
    PinholeCase => ret = Value(Some(PinholeDivision))

\* C14, amended: with the identity calibration the result for a point with
\* z > 0 is (x/z, y/z) when the point is within the angle extents and
\* (x/z, y/z) is a valid pixel, and None otherwise.
C14_PinholeDivision ==
    PinholeCase =>
        ret = Value(IF /\ ~OutsideAngleExtents(Cal, call.point)
                       /\ is_valid_pixel(Cal, PinholeDivision[1], PinholeDivision[2])
                    THEN Some(PinholeDivision)
                    ELSE None)

\* the identity calibration returned x/z and y/z, neither of them zero
C14_Witness ==
    /\ PinholeCase
    /\ ret = Value(Some(PinholeDivision))
    /\ PinholeDivision[1] # 0
    /\ PinholeDivision[1] # call.point[1]
    /\ PinholeDivision[2] # 0

\* the pixel of the point colorize was asked for
Projected == pixel(colorizer, call.point)

\* the pixel's column and row lie within the backing image
InImage(uv) == Trunc(uv[1]) < colorizer.irb.width /\ Trunc(uv[2]) < colorizer.irb.height

\* the backing image's value at column floor(u), row floor(v)
Sample(uv) == colorizer.irb.data[Trunc(uv[2]) + 1][Trunc(uv[1]) + 1]

---------------------------------------------------------------------------
(* Claims about the paths, under SpecPath.                                 *)

\* the names of the scan positions of the project
ScanPositionNames == DOMAIN project.val.scan_positions

\* the scan positions of the project that hold an image of the given name
Holding(stem) == {sp \in {project.val.scan_positions[n] : n \in ScanPositionNames} :
                     stem \in sp.images}

\* C16: scan_position_from_path tries three rules in order and the first
\* that matches decides: the scan position named as the parent directory
\* is; else the one named as the first part of the file stem split on
\* " - "; else one whose images hold the whole file stem; and when none
\* matches the result is the error that carries the path.
C16_FirstRuleWins ==
    call.op = "scan_position_from_path" =>
        IF call.path.parent \in ScanPositionNames
        THEN ret = Value(Ok(project.val.scan_positions[call.path.parent]))
        ELSE IF call.path.stem # << >> /\ call.path.stem[1] \in ScanPositionNames
        THEN ret = Value(Ok(project.val.scan_positions[call.path.stem[1]]))
        ELSE IF Holding(call.path.stem) # {}
        THEN ret.val.ok /\ ret.val.val \in Holding(call.path.stem)
        ELSE ret = Value(Err([type |-> "ScanPositionFromPath", path |-> call.path]))

\* the parent directory named one scan position, the file stem another and
\* the images a third reading, and the parent directory decided
C16_Witness ==
    /\ call.op = "scan_position_from_path"
    /\ call.path.parent = "SP02"
    /\ call.path.stem = <<"SP01", "Image001">>
    /\ ret.val.ok
    /\ ret.val.val.name = "SP02"
    /\ call.path.stem \notin ret.val.val.images

---------------------------------------------------------------------------
(* Claims about the noderef attribute, under SpecNoderef.                  *)

AskedNoderef == call.op \in {"noderef", "get_noderef"}

HasSlash(s) == \E i \in 1..Len(s) : s[i] = "/"

\* v is what follows the last slash of s, all of s when it has none
AfterLastSlash(s, v) ==
    /\ ~HasSlash(v)
    /\ Len(v) <= Len(s)
    /\ SubSeq(s, Len(s) - Len(v) + 1, Len(s)) = v
    /\ Len(v) < Len(s) => s[Len(s) - Len(v)] = "/"

\* C17: a reference resolves to the last slash-separated segment of the
\* noderef attribute whatever the earlier segments are, a value without a
\* slash is the name itself, and an element without the attribute gives a
\* typed error
C17_LastSegment ==
    AskedNoderef =>
        LET attribute == call.element.noderef
            result == ret.val
        IN  /\ ~attribute.some =>
                /\ ~result.ok
                /\ result.err.type \in {"MissingNoderef", "MissingElement"}
            /\ attribute.some =>
                /\ result.ok
                /\ AfterLastSlash(attribute.val, result.val)
                /\ ~HasSlash(attribute.val) => result.val = attribute.val

C17_Witness ==
    /\ call.op = "noderef"
    /\ call.element.noderef = Some(<<"a", "/", "b">>)
    /\ ret = Value(Ok(<<"b">>))

---------------------------------------------------------------------------
(* Claims about the camera of a project file, under SpecRsp.               *)

\* the camera was asked for at the XPath of the calibration entries
AskedCamera == call.op = "camera" /\ call.xpath = CamerasXPath

\* camera holds the values of entry, NaN and zero where entry has none
IsCameraOf(cam, entry) ==
    LET at(s) == IF s \in DOMAIN entry THEN Finite(entry[s]) ELSE NaN
    IN  cam = [fx |-> at("internal_opencv/fx"), fy |-> at("internal_opencv/fy"),
               cx |-> at("internal_opencv/cx"), cy |-> at("internal_opencv/cy"),
               k1 |-> at("internal_opencv/k1"), k2 |-> at("internal_opencv/k2"),
               k3 |-> at("internal_opencv/k3"), k4 |-> at("internal_opencv/k4"),
               p1 |-> at("internal_opencv/p1"), p2 |-> at("internal_opencv/p2"),
               nx |-> AsUsize(at("intrinsic_opencv/nx")),
               ny |-> AsUsize(at("intrinsic_opencv/ny")),
               dx |-> at("intrinsic_opencv/dx"), dy |-> at("intrinsic_opencv/dy")]

\* C18: with more than one camera calibration entry reading the camera is
\* the multiple-cameras error, with exactly one entry it is that camera, and
\* with none it is an absent camera and no error
C18_OneCamera ==
    AskedCamera =>
        LET entries == project.val.camcalibs
        IN  /\ Len(entries) > 1 => ret = Value(Err([type |-> "MultipleCameras"]))
            /\ Len(entries) = 1 =>
                /\ ret.val.ok
                /\ ret.val.val.some
                /\ IsCameraOf(ret.val.val.val, entries[1])
            /\ Len(entries) = 0 => ret = Value(Ok(None))

C18_Witness ==
    /\ AskedCamera
    /\ Len(project.val.camcalibs) = 2
    /\ project.val.camcalibs[1] # project.val.camcalibs[2]
    /\ ret = Value(Err([type |-> "MultipleCameras"]))

---------------------------------------------------------------------------
(* Claims about the project of the event reader, under SpecProject.        *)

\* C19: after any sequence of set_pop and add_scan_position, every scan
\* position the project holds has the pop of the project
C19_ScanPositionsSharePop ==
    \A name \in DOMAIN project.val.scan_positions :
        project.val.scan_positions[name].pop = project.val.pop

C19_Witness ==
    /\ call.op = "add_scan_position"
    /\ call.scan_position.pop # project.val.pop
    /\ project.val.pop # Identity
    /\ Cardinality(DOMAIN project.val.scan_positions) = 2

\* the scan positions of the project
Held == {project.val.scan_positions[n] : n \in DOMAIN project.val.scan_positions}

\* scan is file cut at its first '.'
CutAtFirstDot(file, scan) ==
    /\ Len(scan) <= Len(file)
    /\ SubSeq(file, 1, Len(scan)) = scan
    /\ \A i \in 1..Len(scan) : scan[i] # "."
    /\ Len(scan) < Len(file) => file[Len(scan) + 1] = "."

\* the scan positions that hold a scan named by the final component of
\* name cut at its first '.'
HoldingScanOf(name) ==
    {held \in Held :
        /\ file_name(name).some
        /\ \E scan \in held.scans : CutAtFirstDot(file_name(name).val, scan)}

\* C20: Project::scan_position returns the scan position of exactly that
\* name when there is one, whatever scans the others hold; otherwise one
\* that holds a scan named by the final path component of the argument cut
\* at its first '.', and None when there is none
C20_ExactNameThenScan ==
    call.op = "scan_position" =>
        IF call.name \in DOMAIN project.val.scan_positions
        THEN ret = Value(Some(project.val.scan_positions[call.name]))
        ELSE IF HoldingScanOf(call.name) # {}
        THEN ret.val.some /\ ret.val.val \in HoldingScanOf(call.name)
        ELSE ret = Value(None)

C20_Witness ==
    /\ call.op = "scan_position"
    /\ call.name \in DOMAIN project.val.scan_positions
    /\ HoldingScanOf(call.name) # {}
    /\ project.val.scan_positions[call.name] \notin HoldingScanOf(call.name)
    /\ ret = Value(Some(project.val.scan_positions[call.name]))

---------------------------------------------------------------------------
(* Claims about the path of the project file, under SpecRspPath.           *)

\* the canonical path ends in a file name with the extension ext
EndsWithExtension(path, ext) ==
    LET n == Len(path) - Len(ext)
    IN  /\ n >= 2
        /\ SubSeq(path, n + 1, Len(path)) = ext
        /\ path[n] = "."
        /\ path[n - 1] \notin {"/", "."} \/ (n >= 3 /\ path[n - 1] = "." /\ path[n - 2] # "/")

\* the canonical path of the path asked for, when it exists
Canonical == canonicalize(call.path)

\* C21, as stated: the extension of the path decides, whatever the path
C21_Original ==
    call.op = "rsp_path" =>
        LET found == extension(call.path)
        IN  IF found = Some(<<"RiSCAN">>) \/ found = Some(<<"rsp">>)
            THEN ret.val.ok
            ELSE ~ret.val.ok /\ ret.val.err.type = "ProjectPath"

\* C21: for a path that exists the extension of its canonical path decides:
\* RiSCAN gives the canonical path plus project.rsp, rsp the canonical path
\* itself, anything else the ProjectPath error; a path that does not exist
\* gives the error of fs::canonicalize.  The directory and its project.rsp
\* resolve to the same file, so the projects opened through them are equal
C21_CanonicalExtension ==
    call.op = "rsp_path" =>
        IF ~Canonical.ok THEN ret = Value(Canonical) /\ Canonical.err.type = "Io"
        ELSE IF EndsWithExtension(Canonical.val, <<"RiSCAN">>)
        THEN /\ ret = Value(Ok(Canonical.val \o <<"/">> \o PROJECT_RSP))
             /\ canonicalize(ret.val.val).ok => rsp_path(ret.val.val) = ret.val
        ELSE IF EndsWithExtension(Canonical.val, <<"rsp">>)
        THEN ret = Value(Ok(Canonical.val))
        ELSE ret = Value(Err([type |-> "ProjectPath", path |-> Canonical.val]))

C21_Witness ==
    /\ call.op = "rsp_path"
    /\ call.path = <<"data", "/", "project", ".", "RiSCAN">>
    /\ ret = Value(Ok(<<"/", "data", "/", "project", ".", "RiSCAN", "/", "project", ".", "rsp">>))
    /\ rsp_path(ret.val.val) = ret.val

---------------------------------------------------------------------------
(* Claims about the data of an image, under SpecImageData.                 *)

\* C22, as stated: get returns the value at the row and column of every
\* position with 0 <= u < width and 0 <= v < height, row 0 and column 0
\* included, and None for every position outside
C22_Original ==
    (call.op = "get" /\ call.uv.finite) =>
        IF /\ 0 <= call.uv.u /\ call.uv.u < call.image.width * Scale
           /\ 0 <= call.uv.v /\ call.uv.v < call.image.height * Scale
        THEN ret = Value(Some(call.image.data[Trunc(call.uv.v) + 1][Trunc(call.uv.u) + 1]))
        ELSE ret = Value(None)

---------------------------------------------------------------------------
(* Claims about the colour of a point, under SpecColor.                    *)

\* the images of the scan position asked
AskedImages == project.val.scan_positions["SP01"].images

\* the names of its images that have data
WithData == {n \in DOMAIN AskedImages : AskedImages[n].image_data.some}

\* what the image of that name gives for the point asked
Outcome(n) == ImageColor(AskedImages[n], call.point)

\* the place of the image of that name in the order of the call
PlaceOf(n) == CHOOSE i \in DOMAIN call.order : call.order[i] = n

\* C23: ScanPosition::color passes over the images without data, returns
\* the first value an image with data gives, Ok(None) when every image with
\* data gives none, and an error only when the projection into an image
\* with data fails
C23_ColorSkipsImagesWithoutData ==
    call.op = "ScanPosition::color" =>
        /\ ret.panic => \E n \in WithData : Outcome(n).panic
        /\ (~ret.panic /\ ~ret.val.ok) =>
            /\ \E n \in WithData : Outcome(n) = ret
            /\ ret.val.err.type \in {"MissingInverse", "UnsupportedOpenCvVersion"}
        /\ (~ret.panic /\ ret.val.ok /\ ret.val.val.some) =>
            \E n \in WithData :
                /\ Outcome(n) = ret
                /\ \A m \in WithData : PlaceOf(m) < PlaceOf(n) => Outcome(m) = Value(Ok(None))
        /\ (\A n \in WithData : Outcome(n) = Value(Ok(None))) <=> ret = Value(Ok(None))

C23_Witness ==
    /\ call.op = "ScanPosition::color"
    /\ ~AskedImages[call.order[1]].image_data.some
    /\ AskedImages[call.order[1]].cop = Collapsing
    /\ AskedImages[call.order[2]].image_data.some
    /\ ~ret.panic /\ ret.val.ok /\ ret.val.val.some

---------------------------------------------------------------------------
(* Claims about the state of the colorizer, under Spec.                    *)

\* what a query returns for a point, from the colorizer it is asked of
Answer(self, op, point) ==
    IF op = "cmcs_to_ics" THEN Value(cmcs_to_ics(self.camera_calibration, point))
    ELSE IF InversePanics(self.image.cop) THEN Panic
    ELSE IF op = "socs_to_cmcs" THEN Value(socs_to_cmcs(self, point))
    ELSE IF op = "pixel" THEN Value(pixel(self, point))
    ELSE colorize(self, point)

Queries == {"cmcs_to_ics", "socs_to_cmcs", "pixel", "colorize"}

---------------------------------------------------------------------------
(* Claims about the camera of data/camera.cam, under SpecCamera.           *)

\* |a - b| <= epsilon
WithinEpsilon(a, b, epsilon) == ~DLess(epsilon, DAbs(DSub(a, b)))

\* the camera was asked for the pixel of the point (1, 2, 3)
AskedFixturePoint ==
    /\ call.op = "Camera::cmcs_to_ics"
    /\ call.camera = CameraCam
    /\ call.point = <<DInt(1), DInt(2), DInt(3)>>

\* C25: the camera of the fixture maps the camera-frame point (1, 2, 3) to
\* u = 777.5760 and v = 896.7450, each within 1e-4
C25_FixturePixel ==
    AskedFixturePoint =>
        /\ ~ret.panic /\ ret.val.finite
        /\ WithinEpsilon(ret.val.u, Dec(777, 5760, 0, 0), Dec(0, 1, 0, 0))
        /\ WithinEpsilon(ret.val.v, Dec(896, 7450, 0, 0), Dec(0, 1, 0, 0))

\* the pixel of the point (1, 2, 3) is (777.575991, 896.744979) within 1e-6
C25_Witness ==
    /\ AskedFixturePoint
    /\ ~ret.panic /\ ret.val.finite
    /\ WithinEpsilon(ret.val.u, Dec(777, 5759, 9100, 0), Dec(0, 0, 100, 0))
    /\ WithinEpsilon(ret.val.v, Dec(896, 7449, 7900, 0), Dec(0, 0, 100, 0))

---------------------------------------------------------------------------
(* Claims about the projection of a point into an image, under SpecLoad.   *)

\* C26, as stated: for the matrices of every project that loads, the
\* product mount * cop^-1 * sop^-1 * (x, y, z, 1) has w = 1, so no colour
\* asked of an image ends in the failed assertion
C26_Original == call.op = "color" => ~ret.panic

---------------------------------------------------------------------------
(* Claims about the order of the project file, under SpecLoad.             *)

\* the scan positions of the file stand before its calibrations
ScanPositionsFirst == call.xml.children = <<"scanpositions", "calibrations">>

\* the child of that name that a map of the children holds: the last
LastNamed(children, name) ==
    children[CHOOSE i \in 1..Len(children) :
                /\ children[i].name = name
                /\ \A j \in (i + 1)..Len(children) : children[j].name # name]

\* the images of the scan positions that a project of the file holds, with
\* the name of their scan position
PlacedImagesOf(xml) ==
    UNION {{[scan_position |-> name, image |-> image] :
                image \in ChildrenOf(LastNamed(xml.scanpositions, name).scanposimages)} :
            name \in NamesOf(xml.scanpositions)}

\* C27: a reference to a calibration that the project file holds resolves
\* wherever the calibrations stand in the file, before the scan positions or
\* after them: the load never fails on such a reference, and the image of a
\* loaded project holds the calibrations that its references name
C27_ReferencesResolveInAnyOrder ==
    Loading =>
        /\ ~ret.panic
        /\ ~ret.val.ok =>
              /\ ret.val.err.type = "MissingElement" => ret.val.err \in Dangling(call.xml)
        /\ ret.val.ok =>
              \A placed \in PlacedImagesOf(call.xml) :
                LET image == ret.val.val.scan_positions[placed.scan_position]
                                .images[placed.image.name]
                IN  /\ image.mount_calibration.name = Referenced(placed.image.mountcalib_ref)
                    /\ image.mount_calibration.matrix =
                         MatrixOf(LastNamed(call.xml.mountcalibs,
                                            Referenced(placed.image.mountcalib_ref)).matrix)
                    /\ image.camera_calibration.name = Referenced(placed.image.camcalib_ref)

\* a project file with its scan positions before its calibrations loaded
C27_Witness ==
    /\ Loading
    /\ ScanPositionsFirst
    /\ Dangling(call.xml) = {}
    /\ ret.val.ok
    /\ project = Some(ret.val.val)

---------------------------------------------------------------------------
(* Claims about the image of the first revision, under SpecImage.          *)

\* the image was asked to convert a point
AskedPrcsToCmcs == call.op = "Image::prcs_to_cmcs"

\* Prcs -> Socs with the sop of the image, then Socs -> Cmcs with its cop
\* and its mounting matrix
StepByStep(self, point) ==
    LET socs == Prcs_to_socs(point, self.sop)
    IN  IF socs.panic THEN Panic
        ELSE Socs_to_cmcs(socs.val, self.cop, self.mounting_matrix)

\* the points p and q are the same up to the rounding of the combined
\* matrix applied to the point: two steps of the number grid and one more
\* for every unit of magnitude of the point
NearFor(p, q, point) ==
    \A i \in 1..3 : Abs(p[i] - q[i]) <= 2 + (Magnitude(point) \div Scale)

\* C28: Image::prcs_to_cmcs returns what Prcs -> Socs with the image's sop
\* followed by Socs -> Cmcs with its cop and mounting matrix returns, up to
\* the rounding of the combined matrix, and fails when either fails; it is
\* the mounting matrix as given after the inverse of cop after the inverse
\* of sop; and an image whose three transforms are the identity returns the
\* point unchanged
C28_PrcsToCmcsIsTheTwoConversions ==
    AskedPrcsToCmcs =>
        /\ ret.panic = StepByStep(project.val, call.point).panic
        /\ ~ret.panic =>
              /\ NearFor(ret.val, StepByStep(project.val, call.point).val, call.point)
              /\ NearFor(ret.val,
                         Affine(project.val.mounting_matrix,
                                Affine(Inverse(project.val.cop),
                                       Affine(Inverse(project.val.sop), call.point))),
                         call.point)
        /\ project.val = Image_default => ret = Value(call.point)

\* an image whose three transforms differ, and whose order matters, has
\* converted the point (1, 2, 3)
C28_Witness ==
    /\ AskedPrcsToCmcs
    /\ project.val = [cop |-> Doubling, mounting_matrix |-> QuarterTurn, sop |-> Tripling]
    /\ call.point = Point(Scale, 2 * Scale, 3 * Scale)
    /\ ~ret.panic
    /\ NearFor(ret.val, StepByStep(project.val, call.point).val, call.point)
    /\ ~NearFor(ret.val, Image_prcs_to_cmcs_cop_forward(project.val, call.point).val,
                call.point)

---------------------------------------------------------------------------
(* Claims about the scan positions a project holds, under SpecStored.      *)

\* the scan positions of a project, by the names they are stored under
Stored(p) == IF p.some THEN p.val.scan_positions ELSE << >>

\* every scan position is stored under its own name
UnderOwnName(p) == \A name \in DOMAIN Stored(p) : Stored(p)[name].name = name

\* C29: every scan position of a project is stored under its own name, so
\* no two stored scan positions share a name: adding a scan position leaves
\* the names that were there and the name added, with the scan position
\* added under it, and a loaded project holds one scan position for every
\* name of the project file, the last of that name
C29_OneScanPositionPerName ==
    [][/\ UnderOwnName(project')
       /\ call'.op = "add_scan_position" =>
             /\ DOMAIN Stored(project') =
                  DOMAIN Stored(project) \cup {call'.scan_position.name}
             /\ Stored(project')[call'.scan_position.name].scans =
                  call'.scan_position.scans
       /\ (call'.op = "from_path" /\ ret'.val.ok) =>
             /\ DOMAIN Stored(project') = NamesOf(call'.xml.scanpositions)
             /\ \A name \in DOMAIN Stored(project') :
                  DOMAIN Stored(project')[name].images =
                    NamesOf(LastNamed(call'.xml.scanpositions, name).scanposimages)]_vars

\* a project file with two scan positions of one name was loaded, and the
\* project holds one
C29_Witness ==
    /\ Loading
    /\ ret.val.ok
    /\ Len(call.xml.scanpositions) = 2
    /\ NamesOf(call.xml.scanpositions) = {"SP01"}
    /\ DOMAIN Stored(project) = {"SP01"}
    /\ DOMAIN Stored(project)["SP01"].images = {"Image001"}

---------------------------------------------------------------------------
(* Claims about the header of an Infratec csv file, under SpecHeader.      *)

\* the header reader was called and has not returned
Reading == call.op = "Header::new" /\ call.at # "returned"

\* the number of '=' signs of a line
EqualSigns(line) == Cardinality({i \in 1..Len(line) : line[i] = "="})

\* what a line with one '=' has before it, and after it
KeyOf(line) == SubSeq(line, 1, (CHOOSE i \in 1..Len(line) : line[i] = "=") - 1)

ValueOf(line) == SubSeq(line, (CHOOSE i \in 1..Len(line) : line[i] = "=") + 1, Len(line))

\* a line that gives ImageHeight, ImageWidth or Version a value that is no
\* number of the field's type
Unparsed(line) ==
    /\ EqualSigns(line) = 1
    /\ \/ KeyOf(line) \in {ImageHeight, ImageWidth} /\ ~ParseUsize(ValueOf(line)).ok
       \/ KeyOf(line) = Version /\ ~ParseU8(ValueOf(line)).ok

\* a line with text that has no '=' or more than one
Malformed(line) == line # <<>> /\ line # DataLine /\ EqualSigns(line) # 1

\* the first line after the first that ends the reading, 0 if none does
StopAt(lines) ==
    LET stops == {i \in 2..Len(lines) :
                    lines[i] = DataLine \/ Malformed(lines[i]) \/ Unparsed(lines[i])}
    IN  IF stops = {} THEN 0 ELSE CHOOSE i \in stops : \A j \in stops : i <= j

\* the value the last line for a key before line n gives it, 0 without one
FieldOf(lines, n, key) ==
    LET given == {i \in 2..(n - 1) : EqualSigns(lines[i]) = 1 /\ KeyOf(lines[i]) = key}
    IN  IF given = {} THEN 0
        ELSE ParseUsize(ValueOf(lines[CHOOSE i \in given : \A j \in given : j <= i])).val

StartsWithSettings(lines) == lines # <<>> /\ lines[1] = SettingsLine

\* the reader has returned what the first line that ends the reading calls
\* for, having read the lines up to it and no other
HeaderOutcome ==
    HeaderReturned =>
        LET lines == call.lines
            stop == StopAt(lines)
        IN  /\ ~ret.panic
            /\ ret.val.ok <=>
                 StartsWithSettings(lines) /\ stop # 0 /\ lines[stop] = DataLine
            /\ ret.val.ok =>
                 /\ ret.val.val = [version |-> FieldOf(lines, stop, Version),
                                   width |-> FieldOf(lines, stop, ImageWidth),
                                   height |-> FieldOf(lines, stop, ImageHeight)]
                 /\ \A i \in 2..(stop - 1) : lines[i] # <<>> => EqualSigns(lines[i]) = 1
                 /\ call.read = stop
            /\ ~ret.val.ok =>
                 /\ ret.val.err.type =
                      IF StartsWithSettings(lines) /\ stop # 0 /\ Unparsed(lines[stop])
                      THEN "ParseInt" ELSE "ReadInfratec"
                 /\ call.read <= Len(lines)

\* C30: the Infratec header reader terminates on every finite sequence of
\* lines.  It reads the lines in order and stops at the first of these: a
\* first line that is missing or is not "[Settings]" (a ReadInfratec
\* error), the line "[Data]" (the header, with the last value given to
\* each of its fields, 0 for a field not given), a line with text that
\* does not hold exactly one '=' (a ReadInfratec error), an ImageHeight,
\* ImageWidth or Version line whose value is no number of the field's type
\* (a ParseInt error), the end of the input (a ReadInfratec error)
C30_HeaderReaderStopsAtTheFirst == []HeaderOutcome /\ (Reading ~> HeaderReturned)

\* the reader met a version that u8 does not hold before a line with two
\* '=' signs and the end of the input, and returned the ParseInt error
C30_Witness ==
    /\ HeaderReturned
    /\ call.lines = <<SettingsLine, LargeVersionLine, TwiceLine>>
    /\ call.read = 2
    /\ ret = Value(Err([type |-> "ParseInt"]))

\* the lines after the first up to the first "[Data]", or up to the end
BeforeData(lines) ==
    {i \in 2..Len(lines) : \A j \in 2..i : lines[j] # DataLine}

\* the statement as it was made: a header only from "[Settings]", a later
\* "[Data]" and lines of one '=' between them, and a ReadInfratec error
\* for another first line, for a line between them with another number of
\* '=' signs and for an input that ends before "[Data]"
OriginalOutcome ==
    HeaderReturned =>
        LET lines == call.lines
        IN  /\ ret.val.ok =>
                 /\ StartsWithSettings(lines)
                 /\ \E j \in 2..Len(lines) : lines[j] = DataLine
                 /\ \A i \in BeforeData(lines) : lines[i] # <<>> => EqualSigns(lines[i]) = 1
            /\ (~StartsWithSettings(lines)
                \/ (\E i \in BeforeData(lines) : Malformed(lines[i]))
                \/ (\A j \in 2..Len(lines) : lines[j] # DataLine))
               => ~ret.val.ok /\ ret.val.err.type = "ReadInfratec"

C30_Original == []OriginalOutcome /\ (Reading ~> HeaderReturned)

===========================================================================
